---- MODULE Spec2Model ----
(***************************************************************************)
(* Model of simcityexplore/parameter.py (typed parameter specs:            *)
(* parse_parameters, parse_parameter_spec, ParameterDatatype and the       *)
(* *Spec classes) and of simcityexplore/orthogonal.py (sample), which      *)
(* drives the schema Chooser.                                              *)
(*                                                                         *)
(* Python values are records tagged by their type:                         *)
(*   None   [ty |-> "none"]                                                *)
(*   int    [ty |-> "int",   n |-> i]                                      *)
(*   float  [ty |-> "float", c |-> "fin" | "pinf" | "ninf" | "nan",        *)
(*           n |-> numerator in units of 1/Den]                            *)
(*   str    [ty |-> "str",   s |-> "..."]                                  *)
(*   list   [ty |-> "list",  items |-> <<...>>]                            *)
(*   dict   [ty |-> "dict",  d |-> [key -> value]]                         *)
(* A call that may raise returns [ok |-> TRUE, v |-> value] or             *)
(* [ok |-> FALSE, exc |-> "<exception class>"].                            *)
(***************************************************************************)
EXTENDS Integers, Sequences, FiniteSets, TLC

VARIABLES
    pc,              \* which machine runs and where it is
    parameters,      \* parse_parameters: the caller's mapping (mutated by del)
    parameter_specs, \* parse_parameters: the list of raw specs
    params,          \* parse_parameters: the result being built
    idx,             \* parse_parameters: position of the for loop
    outcome,         \* how the last call ended
    args,            \* arguments of the call under way (history)
    obj,             \* the spec object a constructor produced
    ret              \* the value the last method call returned

vars == <<pc, parameters, parameter_specs, params, idx, outcome, args, obj, ret>>

----------------------------------------------------------------------------
(* Bounds of the model *)

\* floats are numerators over Den == 2 * HalfSteps
HalfSteps == 2
Den == 2 * HalfSteps
\* whole numbers used as interval bounds, defaults and values: -MaxNum..MaxNum
MaxNum == 4
\* longest list of raw specs handed to parse_parameters
MaxSpecs == 2
\* largest minItems of an array schema
MaxItems == 2
\* longest list of choices of a raw choice spec
MaxChoices == 3

----------------------------------------------------------------------------
(* Python values *)

None == [ty |-> "none"]
PyInt(i) == [ty |-> "int", n |-> i]
PyFloat(num) == [ty |-> "float", c |-> "fin", n |-> num]
PInf == [ty |-> "float", c |-> "pinf", n |-> 0]
NInf == [ty |-> "float", c |-> "ninf", n |-> 0]
NaN == [ty |-> "float", c |-> "nan", n |-> 0]
PyStr(s) == [ty |-> "str", s |-> s]
PyBool(b) == [ty |-> "bool", b |-> b]
PyList(items) == [ty |-> "list", items |-> items]
PyDict(d) == [ty |-> "dict", d |-> d]
EmptyDict == PyDict(<<>>)

Ok(v) == [ok |-> TRUE, v |-> v]
Raise(e) == [ok |-> FALSE, exc |-> e]

IsNum(v) == v.ty \in {"int", "float"}
IsNaN(v) == v.ty = "float" /\ v.c = "nan"
IsFinite(v) == v.ty = "int" \/ (v.ty = "float" /\ v.c = "fin")

\* the float a number converts to (int -> float is exact)
AsFloat(v) == IF v.ty = "int" THEN PyFloat(v.n * Den) ELSE v

\* a == b on numbers (nan equals nothing)
NumEq(a, b) ==
    LET x == AsFloat(a)
        y == AsFloat(b)
    IN  /\ x.c # "nan"
        /\ y.c # "nan"
        /\ x.c = y.c
        /\ x.n = y.n

\* a <= b on numbers (every comparison with nan is false)
NumLe(a, b) ==
    LET x == AsFloat(a)
        y == AsFloat(b)
    IN  IF x.c = "nan" \/ y.c = "nan" THEN FALSE
        ELSE IF x.c = "ninf" \/ y.c = "pinf" THEN TRUE
        ELSE IF x.c = "pinf" \/ y.c = "ninf" THEN FALSE
        ELSE x.n <= y.n

NumGt(a, b) == NumLe(b, a) /\ ~NumEq(a, b)

FNeg(x) ==
    CASE x.c = "fin" -> PyFloat(-x.n)
      [] x.c = "pinf" -> NInf
      [] x.c = "ninf" -> PInf
      [] OTHER -> NaN

FAdd(x, y) ==
    CASE x.c = "nan" \/ y.c = "nan" -> NaN
      [] x.c = "fin" /\ y.c = "fin" -> PyFloat(x.n + y.n)
      [] x.c = "fin" -> y
      [] y.c = "fin" -> x
      [] x.c = y.c -> x
      [] OTHER -> NaN

Sign(i) == IF i > 0 THEN 1 ELSE IF i < 0 THEN -1 ELSE 0
FSign(x) == CASE x.c = "fin" -> Sign(x.n) [] x.c = "pinf" -> 1 [] OTHER -> -1

\* truncating division of numerators, as the product of two grid values
TruncDiv(a, b) == Sign(a) * Sign(b) * ((Sign(a) * a) \div (Sign(b) * b))

FMul(x, y) ==
    CASE x.c = "nan" \/ y.c = "nan" -> NaN
      [] x.c = "fin" /\ y.c = "fin" -> PyFloat(TruncDiv(x.n * y.n, Den))
      [] FSign(x) * FSign(y) = 0 -> NaN
      [] FSign(x) * FSign(y) > 0 -> PInf
      [] OTHER -> NInf

\* a + b, a - b, a * b, a / 2 on Python numbers
PyAdd(a, b) ==
    IF a.ty = "int" /\ b.ty = "int" THEN PyInt(a.n + b.n)
    ELSE FAdd(AsFloat(a), AsFloat(b))
PySub(a, b) ==
    IF a.ty = "int" /\ b.ty = "int" THEN PyInt(a.n - b.n)
    ELSE FAdd(AsFloat(a), FNeg(AsFloat(b)))
PyMul(a, b) ==
    IF a.ty = "int" /\ b.ty = "int" THEN PyInt(a.n * b.n)
    ELSE FMul(AsFloat(a), AsFloat(b))
PyHalf(a) ==
    LET x == AsFloat(a)
    IN  IF x.c = "fin" THEN PyFloat(TruncDiv(x.n, 2)) ELSE x

----------------------------------------------------------------------------
(* Conversions of the builtin types *)

\* the numeric literals among the strings of the model
NumLit ==
    ("0" :> PyInt(0)) @@ ("1" :> PyInt(1)) @@ ("2" :> PyInt(2))
    @@ ("3" :> PyInt(3)) @@ ("-1" :> PyInt(-1))
    @@ ("0.5" :> PyFloat(Den \div 2)) @@ ("1.5" :> PyFloat(Den + Den \div 2))
    @@ ("inf" :> PInf) @@ ("nan" :> NaN)

\* float(value)
py_float(value) ==
    CASE value.ty = "float" -> Ok(value)
      [] value.ty = "int" -> Ok(AsFloat(value))
      [] value.ty = "str" ->
            IF value.s \in DOMAIN NumLit
            THEN Ok(AsFloat(NumLit[value.s]))
            ELSE Raise("ValueError")
      [] OTHER -> Raise("TypeError")

\* int(value): truncates a float toward zero
py_int(value) ==
    CASE value.ty = "int" -> Ok(value)
      [] value.ty = "float" ->
            CASE value.c = "fin" -> Ok(PyInt(TruncDiv(value.n, Den)))
              [] value.c = "nan" -> Raise("ValueError")
              [] OTHER -> Raise("OverflowError")
      [] value.ty = "str" ->
            IF value.s \in DOMAIN NumLit /\ NumLit[value.s].ty = "int"
            THEN Ok(NumLit[value.s])
            ELSE Raise("ValueError")
      [] OTHER -> Raise("TypeError")

\* the digits after the point of r/Den, at most k of them
RECURSIVE FracDigits(_, _)
FracDigits(r, k) ==
    IF k = 0 \/ r = 0 THEN ""
    ELSE ToString((r * 10) \div Den) \o FracDigits((r * 10) % Den, k - 1)

\* str(value)
py_str(value) ==
    CASE value.ty = "str" -> Ok(value)
      [] value.ty = "none" -> Ok(PyStr("None"))
      [] value.ty = "int" -> Ok(PyStr(ToString(value.n)))
      [] value.ty = "float" ->
            CASE value.c = "pinf" -> Ok(PyStr("inf"))
              [] value.c = "ninf" -> Ok(PyStr("-inf"))
              [] value.c = "nan" -> Ok(PyStr("nan"))
              [] OTHER ->
                    LET a == Sign(value.n) * value.n
                        frac == FracDigits(a % Den, 17)
                    IN  Ok(PyStr((IF value.n < 0 THEN "-" ELSE "")
                                 \o ToString(a \div Den) \o "."
                                 \o (IF frac = "" THEN "0" ELSE frac)))
      [] OTHER -> Ok(PyStr("<repr>"))

\* bool(value): the truth value
py_bool(value) ==
    CASE value.ty = "bool" -> Ok(value)
      [] value.ty = "none" -> Ok(PyBool(FALSE))
      [] value.ty = "int" -> Ok(PyBool(value.n # 0))
      [] value.ty = "float" -> Ok(PyBool(value.c # "fin" \/ value.n # 0))
      [] value.ty = "str" -> Ok(PyBool(value.s # ""))
      [] value.ty = "list" -> Ok(PyBool(value.items # <<>>))
      [] OTHER -> Ok(PyBool(DOMAIN value.d # {}))

----------------------------------------------------------------------------
(* class ParameterDatatype *)

TYPE_STR == ("int" :> "int") @@ ("float" :> "float") @@ ("str" :> "str")
            @@ ("bool" :> "bool")

\* ParameterDatatype(dtype) for a dtype given by name
ParameterDatatype_init_mut(dtype) ==
    IF dtype \in DOMAIN TYPE_STR THEN Ok(TYPE_STR[dtype])
    ELSE Ok("float")

ParameterDatatype_init(dtype) ==
    IF dtype \in DOMAIN TYPE_STR THEN Ok(TYPE_STR[dtype])
    ELSE Raise("ValueError")

\* type(value) == self.dtype
ParameterDatatype_is_valid(dtype, value) == value.ty = dtype

\* self.dtype(value)
Construct(dtype, value) ==
    CASE dtype = "int" -> py_int(value)
      [] dtype = "float" -> py_float(value)
      [] dtype = "str" -> py_str(value)
      [] OTHER -> py_bool(value)

ParameterDatatype_coerce(dtype, value) ==
    IF value.ty = dtype THEN Ok(value)
    ELSE IF value = None /\ dtype = "str" THEN Ok(PyStr(""))
    ELSE Construct(dtype, value)

coerce_if_set(dtype, value, default) ==
    IF value = None THEN Ok(default)
    ELSE ParameterDatatype_coerce(dtype, value)

----------------------------------------------------------------------------
(* Helpers for sequences of results and for ordering *)

\* the result of a list comprehension whose element expressions may raise:
\* the list of values, or the first exception
Collect(rs) ==
    IF \A i \in 1..Len(rs) : rs[i].ok
    THEN Ok([i \in 1..Len(rs) |-> rs[i].v])
    ELSE LET first == CHOOSE i \in 1..Len(rs) :
                          /\ ~rs[i].ok
                          /\ \A j \in 1..(i - 1) : rs[j].ok
         IN  Raise(rs[first].exc)

\* the strings of the model in lexicographic (code point) order
StrSorted == <<"", "-1", "0", "0.5", "1", "1.5", "2", "3", "None", "a",
               "ab", "b", "bla", "da", "inf", "ja", "nan", "properties", "x",
               "y", "z">>
StrRank(s) ==
    IF \E i \in 1..Len(StrSorted) : StrSorted[i] = s
    THEN CHOOSE i \in 1..Len(StrSorted) : StrSorted[i] = s
    ELSE Len(StrSorted) + 1

\* the characters of the strings of the model, as iterating a str yields them
StrChars ==
    ("" :> <<>>) @@ ("-1" :> <<"-", "1">>) @@ ("0" :> <<"0">>)
    @@ ("0.5" :> <<"0", ".", "5">>) @@ ("1" :> <<"1">>)
    @@ ("1.5" :> <<"1", ".", "5">>) @@ ("2" :> <<"2">>) @@ ("3" :> <<"3">>)
    @@ ("None" :> <<"N", "o", "n", "e">>) @@ ("a" :> <<"a">>)
    @@ ("ab" :> <<"a", "b">>) @@ ("b" :> <<"b">>)
    @@ ("bla" :> <<"b", "l", "a">>) @@ ("da" :> <<"d", "a">>)
    @@ ("inf" :> <<"i", "n", "f">>) @@ ("ja" :> <<"j", "a">>)
    @@ ("nan" :> <<"n", "a", "n">>)
    @@ ("properties" :> <<"p", "r", "o", "p", "e", "r", "t", "i", "e", "s">>)
    @@ ("x" :> <<"x">>) @@ ("y" :> <<"y">>)
    @@ ("z" :> <<"z">>)

\* a < b as list.sort() compares two values of one datatype
PyLt(a, b) ==
    CASE a.ty = "str" /\ b.ty = "str" -> StrRank(a.s) < StrRank(b.s)
      [] a.ty = "bool" /\ b.ty = "bool" -> ~a.b /\ b.b
      [] OTHER -> NumLe(a, b) /\ ~NumEq(a, b)

\* a == b on Python values
PyEq(a, b) ==
    IF IsNum(a) /\ IsNum(b) THEN NumEq(a, b) ELSE a = b

----------------------------------------------------------------------------
(* class FixedSpec(object) *)

\* object.__init__(self, *args): accepts no argument besides self
object_init(extra) ==
    IF extra = <<>> THEN Ok(None) ELSE Raise("TypeError")

NoDtype == "<None>"

\* FixedSpec.__init__(self, name, value, dtype=None)
FixedSpec_init(name, value, dtype) ==
    LET base == object_init(<<name>>)
        dt == ParameterDatatype_init(dtype)
    IN  IF ~base.ok THEN base
        ELSE IF dtype = NoDtype
        THEN IF ~dt.ok THEN dt
             ELSE LET v == ParameterDatatype_coerce(dt.v, value)
                  IN  IF ~v.ok THEN v
                      ELSE Ok([cls |-> "FixedSpec", name |-> name,
                               value |-> v.v])
        ELSE Ok([cls |-> "FixedSpec", name |-> name, value |-> value])

FixedSpec_coerce(self, value) ==
    IF self.value.ty \in DOMAIN TYPE_STR
    THEN Construct(self.value.ty, value)
    ELSE Raise("TypeError")

FixedSpec_is_valid(self, value) == Ok(PyEq(self.value, value))

FixedSpec_choose(self, mapping) == Ok(self.value)

----------------------------------------------------------------------------
(* class SimpleParameterSpec(ParameterSpec) *)

\* SimpleParameterSpec.__init__(self, name, default, dtype): the fields set
SimpleParameterSpec_init(name, default, dtype) ==
    LET dt == ParameterDatatype_init(dtype)
    IN  IF ~dt.ok THEN dt
        ELSE IF default = None
        THEN Ok([name |-> name, dtype |-> dt.v, default |-> None])
        ELSE LET d == ParameterDatatype_coerce(dt.v, default)
             IN  IF ~d.ok THEN d
                 ELSE Ok([name |-> name, dtype |-> dt.v, default |-> d.v])

SimpleParameterSpec_coerce(self, value) ==
    ParameterDatatype_coerce(self.dtype, value)

----------------------------------------------------------------------------
(* class IntervalSpec(SimpleParameterSpec) *)

IntervalSpec_is_valid(self, value) ==
    IF ~IsNum(value) \/ ~IsNum(self.min) \/ ~IsNum(self.max)
    THEN Raise("TypeError")
    ELSE Ok(/\ NumLe(self.min, value)
            /\ NumLe(value, self.max)
            /\ ParameterDatatype_is_valid(self.dtype, value))

\* the default chosen when none is given (lines 285-291)
IntervalSpec_default_mut(min, max) ==
    IF NumEq(min, NInf) THEN max
    ELSE IF NumEq(max, PInf) THEN max
    ELSE PyHalf(PySub(max, min))

IntervalSpec_default(min, max) ==
    IF NumEq(min, NInf) THEN max
    ELSE IF NumEq(max, PInf) THEN min
    ELSE PyHalf(PyAdd(min, max))

\* IntervalSpec.__init__(self, name, dtype, min_value, max_value, default)
IntervalSpec_init(name, dtype, min_value, max_value, default) ==
    LET dt == ParameterDatatype_init(dtype)
        mn == coerce_if_set(dt.v, min_value, NInf)
        mx == coerce_if_set(dt.v, max_value, PInf)
        dflt == IF default = None THEN IntervalSpec_default(mn.v, mx.v)
                ELSE default
        base == SimpleParameterSpec_init(name, dflt, dtype)
        self == [cls |-> "IntervalSpec", name |-> name, dtype |-> dt.v,
                 min |-> mn.v, max |-> mx.v, default |-> base.v.default]
        valid == IF self.default = None THEN Raise("TypeError")
                 ELSE IntervalSpec_is_valid(self, self.default)
    IN  IF ~dt.ok THEN dt
        ELSE IF ~mn.ok THEN mn
        ELSE IF ~mx.ok THEN mx
        ELSE IF ~IsNum(mn.v) \/ ~IsNum(mx.v) THEN Raise("TypeError")
        ELSE IF NumGt(mn.v, mx.v) THEN Raise("ValueError")
        ELSE IF ~base.ok THEN base
        ELSE IF ~valid.ok THEN valid
        ELSE IF ~valid.v THEN Raise("ValueError")
        ELSE Ok(self)

\* math.log(y) for y on the grid, 0 < y <= 1: the first term
\* 2(y-1)/(y+1) of the series; exact at 1, negative below it
math_log(y) ==
    CASE y.c = "fin" /\ y.n > 0 ->
            Ok(PyFloat(TruncDiv(2 * (y.n - Den) * Den, y.n + Den)))
      [] OTHER -> Raise("ValueError")

\* IntervalSpec.choose(self, mapping)
IntervalSpec_choose_mut(self, mapping) ==
    SimpleParameterSpec_coerce(self,
        PyMul(mapping, PySub(self.max, self.min)))

IntervalSpec_choose(self, mapping) ==
    LET log1m == math_log(PySub(PyInt(1), mapping))
    IN  IF self.min # None /\ self.max # None
        THEN SimpleParameterSpec_coerce(self,
                 PyAdd(PyMul(mapping, PySub(self.max, self.min)), self.min))
        ELSE IF self.min # None
        THEN IF ~log1m.ok THEN log1m
             ELSE SimpleParameterSpec_coerce(self,
                      PyAdd(PyMul(PyInt(-100), log1m.v), self.min))
        ELSE IF self.max # None
        THEN IF ~log1m.ok THEN log1m
             ELSE SimpleParameterSpec_coerce(self,
                      PyAdd(PyMul(PyInt(100), log1m.v), self.max))
        ELSE IF NumEq(mapping, PyFloat(0)) THEN Ok(NInf)
        ELSE Raise("AttributeError")

----------------------------------------------------------------------------
(* class ChoiceSpec(SimpleParameterSpec) *)

\* ChoiceSpec.__init__(self, name, choices, dtype, default=None)
ChoiceSpec_init(name, choices, dtype, default) ==
    LET dflt == IF default = None THEN choices.items[1] ELSE default
        base == SimpleParameterSpec_init(name, dflt, dtype)
        coerced == Collect([i \in 1..Len(choices.items) |->
                       ParameterDatatype_coerce(base.v.dtype,
                                                choices.items[i])])
    IN  IF choices.ty # "list" THEN Raise("ValueError")
        ELSE IF Len(choices.items) = 0 THEN Raise("ValueError")
        ELSE IF ~base.ok THEN base
        ELSE IF ~coerced.ok THEN coerced
        ELSE Ok([cls |-> "ChoiceSpec", name |-> name, dtype |-> base.v.dtype,
                 default |-> base.v.default,
                 choices |-> SortSeq(coerced.v, PyLt)])

ChoiceSpec_is_valid_mut(self, value) ==
    Ok(\E i \in 1..Len(self.choices) : PyEq(value, self.choices[i]))

ChoiceSpec_is_valid(self, value) ==
    Ok(/\ ParameterDatatype_is_valid(self.dtype, value)
       /\ \E i \in 1..Len(self.choices) : PyEq(value, self.choices[i]))

\* ChoiceSpec.choose(self, mapping)
ChoiceSpec_choose_mut(self, mapping) ==
    LET i == py_int(PyMul(mapping, PyInt(Len(self.choices) - 1)))
    IN  IF ~i.ok THEN i ELSE Ok(self.choices[i.v.n + 1])

ChoiceSpec_choose(self, mapping) ==
    LET i == py_int(PyMul(mapping, PyInt(Len(self.choices))))
    IN  IF ~i.ok THEN i
        ELSE IF i.v.n >= Len(self.choices) \/ i.v.n < -Len(self.choices)
        THEN Raise("IndexError")
        ELSE IF i.v.n >= 0 THEN Ok(self.choices[i.v.n + 1])
        ELSE Ok(self.choices[Len(self.choices) + i.v.n + 1])

----------------------------------------------------------------------------
(* class StringSpec(SimpleParameterSpec) and the length bounds of ListSpec *)

sys_maxsize == 2147483647

\* the length checks shared by StringSpec.__init__ and ListSpec.__init__:
\* the pair of coerced bounds, or the exception
LengthBounds_mut(min_len, max_len) ==
    LET mn == coerce_if_set("int", min_len, PyInt(0))
        mx == coerce_if_set("int", max_len, PyInt(sys_maxsize))
    IN  IF ~mn.ok THEN mn
        ELSE IF ~mx.ok THEN mx
        ELSE IF mn.v.n < 0 THEN Raise("ValueError")
        ELSE Ok([min_len |-> mn.v.n, max_len |-> mx.v.n])

LengthBounds(min_len, max_len) ==
    LET mn == coerce_if_set("int", min_len, PyInt(0))
        mx == coerce_if_set("int", max_len, PyInt(sys_maxsize))
    IN  IF ~mn.ok THEN mn
        ELSE IF ~mx.ok THEN mx
        ELSE IF mn.v.n > mx.v.n THEN Raise("ValueError")
        ELSE IF mn.v.n < 0 THEN Raise("ValueError")
        ELSE Ok([min_len |-> mn.v.n, max_len |-> mx.v.n])

\* StringSpec.__init__(self, name, default, min_len, max_len)
StringSpec_init(name, default, min_len, max_len) ==
    LET base == SimpleParameterSpec_init(name, default, "str")
        lens == LengthBounds(min_len, max_len)
    IN  IF ~base.ok THEN base
        ELSE IF ~lens.ok THEN lens
        ELSE Ok([cls |-> "StringSpec", name |-> name, dtype |-> "str",
                 default |-> base.v.default,
                 min_len |-> lens.v.min_len, max_len |-> lens.v.max_len])

StringSpec_is_valid_mut(self, value) ==
    Ok(/\ ParameterDatatype_is_valid(self.dtype, value)
       /\ Len(value.s) <= self.max_len)

StringSpec_is_valid(self, value) ==
    Ok(/\ ParameterDatatype_is_valid(self.dtype, value)
       /\ Len(value.s) >= self.min_len
       /\ Len(value.s) <= self.max_len)

----------------------------------------------------------------------------
(* class ListSpec(ParameterSpec), class Point2DSpec(ParameterSpec) *)

\* ListSpec.__init__(self, name, content_spec, min_len, max_len)
ListSpec_init(name, content_spec, min_len, max_len) ==
    LET lens == LengthBounds(min_len, max_len)
    IN  IF ~lens.ok THEN lens
        ELSE Ok([cls |-> "ListSpec", name |-> name,
                 content_spec |-> content_spec,
                 min_len |-> lens.v.min_len, max_len |-> lens.v.max_len])

\* Point2DSpec.__init__(self, name, x, y, valid_properties): properties is
\* PyList(<<spec, ...>>) or None
Point2DSpec_init(name, x, y, valid_properties) ==
    Ok([cls |-> "Point2DSpec", name |-> name, x |-> x, y |-> y,
        properties |-> valid_properties])

\* what a for loop over value visits; a dict yields its keys, here in
\* lexicographic order (the mapping d does not keep the insertion order)
PyIter(value) ==
    CASE value.ty = "list" -> Ok(value.items)
      [] value.ty = "str" ->
            IF value.s \in DOMAIN StrChars
            THEN Ok([i \in 1..Len(StrChars[value.s]) |->
                        PyStr(StrChars[value.s][i])])
            ELSE Ok(<<>>)
      [] value.ty = "dict" ->
            Ok(SelectSeq([i \in 1..Len(StrSorted) |-> PyStr(StrSorted[i])],
                         LAMBDA k : k.s \in DOMAIN value.d))
      [] OTHER -> Raise("TypeError")

\* value[key] for a string key
PyGetItem(value, key) ==
    IF value.ty # "dict" THEN Raise("TypeError")
    ELSE IF key \notin DOMAIN value.d THEN Raise("KeyError")
    ELSE Ok(value.d[key])

\* the boolean conjunction a and b of two results, b evaluated only when
\* a is True
AndThen(a, b) == IF ~a.ok \/ ~a.v THEN a ELSE b

RECURSIVE Spec_coerce(_, _)
RECURSIVE Spec_is_valid(_, _)

ListSpec_coerce(self, value) ==
    LET it == PyIter(value)
    IN  IF ~it.ok THEN it
        ELSE LET rs == Collect([i \in 1..Len(it.v) |->
                           Spec_coerce(self.content_spec, it.v[i])])
             IN  IF ~rs.ok THEN rs ELSE Ok(PyList(rs.v))

ListSpec_is_valid_mut(self, value) ==
    IF value.ty # "list" THEN Ok(FALSE)
    ELSE Ok(/\ Len(value.items) >= self.min_len
            /\ Len(value.items) <= self.max_len)

ListSpec_is_valid(self, value) ==
    LET RECURSIVE allitems(_)
        allitems(i) ==
            IF i > Len(value.items) THEN Ok(TRUE)
            ELSE AndThen(Spec_is_valid(self.content_spec, value.items[i]),
                         allitems(i + 1))
    IN  IF value.ty # "list" THEN Ok(FALSE)
        ELSE AndThen(allitems(1),
                     Ok(/\ Len(value.items) >= self.min_len
                        /\ Len(value.items) <= self.max_len))

\* Point2DSpec.coerce(self, value): the value returned
Point2DSpec_coerce(self, value) ==
    LET vx == PyGetItem(value, "x")
        cx == Spec_coerce(self.x, vx.v)
        vy == PyGetItem(value, "y")
        cy == Spec_coerce(self.y, vy.v)
        props == value.d["properties"]
        declared == self.properties.items
        present == SelectSeq(declared,
                       LAMBDA prop : prop.name \in DOMAIN props.d)
        cs == Collect([i \in 1..Len(present) |->
                  Spec_coerce(present[i], props.d[present[i].name])])
        last(nm) == CHOOSE i \in 1..Len(present) :
                        /\ present[i].name = nm
                        /\ \A j \in (i + 1)..Len(present) :
                               present[j].name # nm
        newprops == [nm \in {present[i].name : i \in 1..Len(present)} |->
                        cs.v[last(nm)]]
        base == [k \in (DOMAIN value.d) \cup {"properties"} |->
                    CASE k = "x" -> cx.v
                      [] k = "y" -> cy.v
                      [] k = "properties" -> EmptyDict
                      [] OTHER -> value.d[k]]
    IN  IF ~vx.ok THEN vx
        ELSE IF ~cx.ok THEN cx
        ELSE IF ~vy.ok THEN vy
        ELSE IF ~cy.ok THEN cy
        ELSE IF "properties" \notin DOMAIN value.d THEN Ok(PyDict(base))
        ELSE IF self.properties = None THEN Raise("TypeError")
        ELSE IF props.ty # "dict"
        THEN IF declared = <<>> THEN Ok(PyDict(base))
             ELSE Raise("TypeError")
        ELSE IF ~cs.ok THEN cs
        ELSE Ok(PyDict([base EXCEPT !["properties"] = PyDict(newprops)]))

\* lines 455-456: the supplied property names are among the declared ones
properties_declared_mut(self, props) ==
    IF props.ty # "dict" THEN Raise("AttributeError")
    ELSE IF self.properties = None THEN Raise("TypeError")
    ELSE Ok(TRUE)

properties_declared(self, props) ==
    IF props.ty # "dict" THEN Raise("AttributeError")
    ELSE IF self.properties = None THEN Raise("TypeError")
    ELSE Ok(DOMAIN props.d \subseteq
            {self.properties.items[i].name :
                 i \in 1..Len(self.properties.items)})

\* Point2DSpec.is_valid(self, value)
Point2DSpec_is_valid(self, value) ==
    LET props == IF "properties" \in DOMAIN value.d
                 THEN value.d["properties"] ELSE EmptyDict
        vx == PyGetItem(value, "x")
        cx == Spec_coerce(self.x, vx.v)
        vy == PyGetItem(value, "y")
        cy == Spec_coerce(self.y, vy.v)
        declared == self.properties.items
        subset == properties_declared(self, props)
        check(spec, item) ==
            IF ~item.ok THEN item
            ELSE LET c == Spec_coerce(spec, item.v)
                 IN  IF ~c.ok THEN c ELSE Spec_is_valid(spec, c.v)
        RECURSIVE allprops(_)
        allprops(i) ==
            IF i > Len(declared) THEN Ok(TRUE)
            ELSE AndThen(check(declared[i],
                               PyGetItem(props, declared[i].name)),
                         allprops(i + 1))
        whole == AndThen(check(self.x, vx),
                 AndThen(check(self.y, vy),
                 AndThen(subset, allprops(1))))
    IN  IF value.ty # "dict" THEN Raise("AttributeError")
        ELSE IF ~whole.ok /\ whole.exc = "KeyError" THEN Ok(FALSE)
        ELSE whole

\* spec.coerce(value), by the class of spec
Spec_coerce(self, value) ==
    CASE self.cls = "FixedSpec" -> FixedSpec_coerce(self, value)
      [] self.cls = "ListSpec" -> ListSpec_coerce(self, value)
      [] self.cls = "Point2DSpec" -> Point2DSpec_coerce(self, value)
      [] OTHER -> SimpleParameterSpec_coerce(self, value)

\* spec.is_valid(value), by the class of spec
Spec_is_valid(self, value) ==
    CASE self.cls = "FixedSpec" -> FixedSpec_is_valid(self, value)
      [] self.cls = "IntervalSpec" -> IntervalSpec_is_valid(self, value)
      [] self.cls = "ChoiceSpec" -> ChoiceSpec_is_valid(self, value)
      [] self.cls = "StringSpec" -> StringSpec_is_valid(self, value)
      [] self.cls = "ListSpec" -> ListSpec_is_valid(self, value)
      [] OTHER -> Point2DSpec_is_valid(self, value)

\* ParameterSpec.choose(self, mapping): not implemented by the base class
ParameterSpec_choose(self, mapping) == Raise("NotImplementedError")

\* spec.choose(mapping), by the class of spec: FixedSpec, ChoiceSpec and
\* IntervalSpec define choose, the other classes inherit it
Spec_choose(self, mapping) ==
    CASE self.cls = "FixedSpec" -> FixedSpec_choose(self, mapping)
      [] self.cls = "IntervalSpec" -> IntervalSpec_choose(self, mapping)
      [] self.cls = "ChoiceSpec" -> ChoiceSpec_choose(self, mapping)
      [] OTHER -> ParameterSpec_choose(self, mapping)

----------------------------------------------------------------------------
(* parse_parameter_spec *)

\* idict.get(key, default)
DictGet(idict, key, default) ==
    IF key \in DOMAIN idict THEN idict[key] ELSE default

\* d after d.update(other)
DictUpdate(d, other) == other @@ d

\* parse_parameter_spec(idict): res is the spec object returned or the
\* exception raised, idict is the raw spec as the call leaves it
RECURSIVE parse_parameter_spec(_)
parse_parameter_spec(idict) ==
    LET default == DictGet(idict, "default", None)
        named(r) == IF "name" \in DOMAIN idict THEN r ELSE Raise("KeyError")
        pure(r) == [res |-> r, idict |-> idict]
    IN  IF "type" \notin DOMAIN idict THEN pure(Raise("KeyError"))
        ELSE CASE idict.type \in {"number", "interval"} ->
                pure(named(IntervalSpec_init(idict.name,
                         DictGet(idict, "dtype", "float"),
                         DictGet(idict, "min", None),
                         DictGet(idict, "max", None), default)))
          [] idict.type = "choice" ->
                pure(IF "name" \notin DOMAIN idict
                        \/ "choices" \notin DOMAIN idict
                     THEN Raise("KeyError")
                     ELSE ChoiceSpec_init(idict.name, idict.choices,
                              DictGet(idict, "dtype", "str"), default))
          [] idict.type \in {"str", "string"} ->
                pure(named(StringSpec_init(idict.name, default,
                         DictGet(idict, "min_length", None),
                         DictGet(idict, "max_length", None))))
          [] idict.type = "point2d" ->
                LET tag(nm) == ("name" :> nm) @@ ("type" :> "interval")
                    x_dict == DictUpdate(DictGet(idict, "x", <<>>), tag("x"))
                    y_dict == DictUpdate(DictGet(idict, "y", <<>>), tag("y"))
                    x == parse_parameter_spec(x_dict)
                    y == parse_parameter_spec(y_dict)
                    raw == DictGet(idict, "properties", <<>>)
                    ps == [i \in 1..Len(raw) |-> parse_parameter_spec(raw[i])]
                    stop == IF \A i \in 1..Len(raw) : ps[i].res.ok
                            THEN Len(raw)
                            ELSE CHOOSE i \in 1..Len(raw) :
                                     /\ ~ps[i].res.ok
                                     /\ \A j \in 1..(i - 1) : ps[j].res.ok
                    props == Collect([i \in 1..Len(raw) |-> ps[i].res])
                    withxy == [k \in DOMAIN idict |->
                                  CASE k = "x" -> x_dict
                                    [] k = "y" -> y_dict
                                    [] OTHER -> idict[k]]
                    withprops ==
                        [k \in DOMAIN idict |->
                            IF k = "properties"
                            THEN [i \in 1..Len(raw) |->
                                     IF i <= stop THEN ps[i].idict
                                     ELSE raw[i]]
                            ELSE withxy[k]]
                IN  IF ~x.res.ok THEN [res |-> x.res, idict |-> withxy]
                    ELSE IF ~y.res.ok THEN [res |-> y.res, idict |-> withxy]
                    ELSE IF ~props.ok /\ props.exc # "KeyError"
                    THEN [res |-> props, idict |-> withprops]
                    ELSE [res |-> named(Point2DSpec_init(idict.name,
                                      x.res.v, y.res.v,
                                      IF props.ok THEN PyList(props.v)
                                      ELSE None)),
                          idict |-> withprops]
          [] idict.type = "list" ->
                IF "contents" \notin DOMAIN idict THEN pure(Raise("KeyError"))
                ELSE LET contents == DictUpdate(idict.contents,
                                                "name" :> "contents")
                         c == parse_parameter_spec(contents)
                         after == [idict EXCEPT !["contents"] = c.idict]
                     IN  IF ~c.res.ok THEN [res |-> c.res, idict |-> after]
                         ELSE [res |-> named(ListSpec_init(idict.name,
                                           c.res.v,
                                           DictGet(idict, "min_length", None),
                                           DictGet(idict, "max_length", None))),
                               idict |-> after]
          [] idict.type = "fixed" ->
                pure(IF "name" \notin DOMAIN idict
                        \/ "value" \notin DOMAIN idict
                     THEN Raise("KeyError")
                     ELSE FixedSpec_init(idict.name, idict.value, NoDtype))
          [] OTHER -> pure(Raise("ValueError"))

----------------------------------------------------------------------------
(* parse_parameters *)

\* [param['name'] for param in parameter_specs] as a set (line 23)
param_specset(specs) == {specs[i].name : i \in 1..Len(specs)}

\* paramset - param_specset, the names reported at lines 25-28
unknown_parameters_mut(parameters_, specs) ==
    IF param_specset(specs) \subseteq DOMAIN parameters_
    THEN (DOMAIN parameters_) \ param_specset(specs)
    ELSE {}

unknown_parameters(parameters_, specs) ==
    (DOMAIN parameters_) \ param_specset(specs)

Returned(v) == [ok |-> TRUE, v |-> v]
Raised(exc, site, at, names) ==
    [ok |-> FALSE, exc |-> exc, site |-> site, at |-> at, names |-> names]
Running == [ok |-> FALSE, exc |-> "", site |-> "running", at |-> 0,
            names |-> {}]

\* d after del d[key]
DictDel(d, key) == [k \in (DOMAIN d) \ {key} |-> d[k]]

\* lines 34-35: value = parameters[spec.name]; del parameters[spec.name]
lookup_mut(spec, parameters_) ==
    IF spec.name \in DOMAIN parameters_ THEN Ok(parameters_[spec.name])
    ELSE IF "default" \in DOMAIN spec /\ spec.default # None
    THEN Ok(spec.default)
    ELSE Raise("KeyError")

lookup(spec, parameters_) ==
    IF spec.name \in DOMAIN parameters_ THEN Ok(parameters_[spec.name])
    ELSE Raise("KeyError")

\* lines 44-49: the coerced value is kept only when spec.is_valid accepts it
validated_mut(spec, value) == Ok(value)

validated(spec, value) ==
    LET valid == Spec_is_valid(spec, value)
    IN  IF ~valid.ok THEN valid
        ELSE IF valid.v THEN Ok(value)
        ELSE Raise("invalid")

\* what one pass through the body of the for loop leaves: the raw spec, the
\* parameters and the result, and the exception the pass raised, if any
loop_state(parsed, ps, pm, r) ==
    [spec_raw |-> parsed.idict, parameters |-> ps, params |-> pm,
     raised |-> r]

\* str(spec), as the messages of lines 37-49 format it: Point2DSpec.__str__
\* reads self.properties, which is list(self._properties) and fails for a
\* point whose properties are None
Spec_str(self) ==
    IF self.cls = "Point2DSpec" /\ self.properties = None
    THEN Raise("TypeError")
    ELSE Ok(PyStr("<str>"))

\* the ValueError of lines 37-49 about spec, or what formatting its message
\* raises
complaint(spec, site, at) ==
    IF Spec_str(spec).ok THEN Raised("ValueError", site, at, {spec.name})
    ELSE Raised(Spec_str(spec).exc, site, at, {spec.name})

\* lines 43-49, entered with kept == validated(spec, value); call holds the
\* mapping after the del, the result so far and the position of the loop
loop_else(parsed, spec, kept, call) ==
    IF ~kept.ok /\ kept.exc = "invalid"
    THEN loop_state(parsed, call.parameters, call.params,
                    complaint(spec, "invalid", call.at))
    ELSE IF ~kept.ok
    THEN loop_state(parsed, call.parameters, call.params,
                    Raised(kept.exc, "is_valid", call.at, {spec.name}))
    ELSE loop_state(parsed, call.parameters,
                    (spec.name :> kept.v) @@ call.params, Running)

\* lines 36-42, entered with value == spec.coerce(value)
loop_except(parsed, spec, value, call) ==
    IF ~value.ok /\ value.exc = "KeyError"
    THEN loop_state(parsed, call.parameters, call.params,
                    complaint(spec, "missing", call.at))
    ELSE IF ~value.ok /\ value.exc \in {"TypeError", "ValueError"}
    THEN loop_state(parsed, call.parameters, call.params,
                    complaint(spec, "coerce", call.at))
    ELSE IF ~value.ok
    THEN loop_state(parsed, call.parameters, call.params,
                    Raised(value.exc, "coerce", call.at, {spec.name}))
    ELSE loop_else(parsed, spec, validated(spec, value.v), call)

\* lines 33-36, entered with found == parameters[spec.name]
loop_try(parsed, spec, found, parameters_, params_, at) ==
    IF ~found.ok
    THEN loop_state(parsed, parameters_, params_,
                    complaint(spec, "missing", at))
    ELSE loop_except(parsed, spec, Spec_coerce(spec, found.v),
                     [parameters |-> DictDel(parameters_, spec.name),
                      params |-> params_, at |-> at])

\* line 32, entered with parsed == parse_parameter_spec(spec_raw)
loop_parsed(parsed, spec_raw, parameters_, params_, at) ==
    IF ~parsed.res.ok
    THEN loop_state(parsed, parameters_, params_,
                    Raised(parsed.res.exc, "spec", at, {spec_raw.name}))
    ELSE loop_try(parsed, parsed.res.v, lookup(parsed.res.v, parameters_),
                  parameters_, params_, at)

\* one pass through the body of the for loop (lines 32-49) for the raw spec
\* spec_raw at position at
loop_body(spec_raw, parameters_, params_, at) ==
    loop_parsed(parse_parameter_spec(spec_raw), spec_raw, parameters_,
                params_, at)

\* lines 22-30: the check of the supplied names
parse_parameters_enter ==
    /\ pc = "call"
    /\ IF unknown_parameters(parameters, parameter_specs) # {}
       THEN /\ outcome' = Raised("ValueError", "unknown", 0,
                              unknown_parameters(parameters, parameter_specs))
            /\ pc' = "done"
            /\ UNCHANGED <<params, idx>>
       ELSE /\ params' = <<>>
            /\ idx' = 1
            /\ pc' = "loop"
            /\ UNCHANGED outcome
    /\ UNCHANGED <<parameters, parameter_specs, args, obj, ret>>

\* lines 31-49: one iteration of the for loop
parse_parameters_loop ==
    /\ pc = "loop"
    /\ idx <= Len(parameter_specs)
    /\ \E step \in {loop_body(parameter_specs[idx], parameters, params, idx)} :
           /\ parameter_specs' =
                  [parameter_specs EXCEPT ![idx] = step.spec_raw]
           /\ parameters' = step.parameters
           /\ params' = step.params
           /\ IF step.raised = Running
              THEN /\ idx' = idx + 1
                   /\ UNCHANGED <<pc, outcome>>
              ELSE /\ outcome' = step.raised
                   /\ pc' = "done"
                   /\ UNCHANGED idx
    /\ UNCHANGED <<args, obj, ret>>

\* line 50: return params
parse_parameters_return ==
    /\ pc = "loop"
    /\ idx > Len(parameter_specs)
    /\ outcome' = Returned(params)
    /\ pc' = "done"
    /\ UNCHANGED <<parameters, parameter_specs, params, idx, args, obj, ret>>

----------------------------------------------------------------------------
(* Inputs of parse_parameters *)

\* all sequences over S of length 1..n
RECURSIVE SeqsUpTo(_, _)
SeqsUpTo(S, n) ==
    IF n = 0 THEN {}
    ELSE LET shorter == SeqsUpTo(S, n - 1)
         IN  {<<x>> : x \in S} \cup shorter
             \cup {Append(q, x) : q \in {r \in shorter : Len(r) = n - 1},
                                  x \in S}

\* all mappings from a subset of the names K to values in V
Mappings(K, V) == UNION {[D -> V] : D \in SUBSET K}

\* raw specs, without their name
RawKinds ==
    { ("type" :> "interval") @@ ("min" :> PyInt(0)) @@ ("max" :> PyInt(MaxNum))
          @@ ("default" :> PyInt(1)),
      ("type" :> "interval") @@ ("min" :> PyInt(MaxNum)) @@ ("max" :> PyInt(0)),
      ("type" :> "str") @@ ("max_length" :> PyInt(2)) @@ ("default" :> PyStr("a")),
      ("type" :> "point2d")
          @@ ("properties" :> << ("name" :> "ab") @@ ("type" :> "string") >>),
      ("type" :> "list") @@ ("contents" :> ("type" :> "str")),
      ("type" :> "fixed") @@ ("value" :> PyInt(1)) }

SpecNames == {"a", "b"}
ParamNames == {"a", "b", "z"}

RawSpecs == {("name" :> nm) @@ k : nm \in SpecNames, k \in RawKinds}

\* the values supplied for parameters
ParamValues ==
    { PyInt(1), PyStr("bla"), PyStr("1"),
      PyList(<<PyStr("ja"), PyInt(1)>>),
      PyDict(("x" :> PyStr("0.5")) @@ ("y" :> PyInt(1))
             @@ ("properties" :> PyDict(("ab" :> PyStr("ja"))))) }

Idle == [ty |-> "none"]

InitParse ==
    /\ pc = "call"
    /\ parameter_specs \in SeqsUpTo(RawSpecs, MaxSpecs)
    /\ parameters \in Mappings(ParamNames, ParamValues)
    /\ params = <<>>
    /\ idx = 0
    /\ outcome = Running
    /\ args = [parameters |-> parameters, parameter_specs |-> parameter_specs]
    /\ obj = Idle
    /\ ret = Idle

Next ==
    \/ parse_parameters_enter
    \/ parse_parameters_loop
    \/ parse_parameters_return

Spec == InitParse /\ [][Next]_vars

----------------------------------------------------------------------------
(* Constructing one spec object and calling its methods *)

\* spec = parse_parameter_spec(idict) for the raw spec under test
parse_spec ==
    /\ pc = "raw"
    /\ LET r == parse_parameter_spec(parameter_specs[1])
       IN  /\ obj' = r.res
           /\ parameter_specs' = <<r.idict>>
    /\ pc' = "made"
    /\ UNCHANGED <<parameters, params, idx, outcome, args, ret>>

\* the scalars x in [0, 1) of the grid
Scalars == {PyFloat(k) : k \in 0..(Den - 1)}

\* spec.choose(mapping) on an IntervalSpec
interval_choose ==
    /\ pc = "made"
    /\ obj.ok
    /\ obj.v.cls = "IntervalSpec"
    /\ \E mapping \in Scalars :
          ret' = [mapping |-> mapping,
                  res |-> IntervalSpec_choose(obj.v, mapping)]
    /\ pc' = "chosen"
    /\ UNCHANGED <<parameters, parameter_specs, params, idx, outcome, args,
                   obj>>

\* spec.is_valid(value) on the value under test
spec_is_valid ==
    /\ pc = "made"
    /\ obj.ok
    /\ ret' = Spec_is_valid(obj.v, args.value)
    /\ pc' = "validated"
    /\ UNCHANGED <<parameters, parameter_specs, params, idx, outcome, args,
                   obj>>

\* FixedSpec(name, value) or FixedSpec(name, value, dtype)
new_FixedSpec ==
    /\ pc = "raw"
    /\ \E dtype \in {NoDtype, "int", "str"} :
          obj' = FixedSpec_init(args.idict.name, args.idict.value, dtype)
    /\ pc' = "made"
    /\ UNCHANGED <<parameters, parameter_specs, params, idx, outcome, args,
                   ret>>

\* the ways an optional key of a raw spec may be given: absent, or any of V
Opt(key, V) == {<<>>} \cup {(key :> v) : v \in V}

WholeNums == {PyInt(n) : n \in (-MaxNum)..MaxNum}
HalfNums == {PyFloat(k * HalfSteps) : k \in (-2 * MaxNum - 1)..(2 * MaxNum + 1)}

\* raw interval specs: whole bounds (as int or numeral), defaults on the half
\* grid, the datatypes int and float and an unknown one
RawIntervals ==
    {("name" :> "a") @@ ("type" :> ty) @@ dt @@ mn @@ mx @@ df :
        ty \in {"interval", "number"},
        dt \in Opt("dtype", {"int", "float", "complex"}),
        mn \in Opt("min", WholeNums \cup {PyStr("1"), PyStr("bla")}),
        mx \in Opt("max", WholeNums \cup {PyStr("1")}),
        df \in Opt("default", HalfNums \cup {PyStr("bla")})}

\* the state in which the raw spec idict is about to be parsed and value is
\* the value its methods are tried on
InitObject(idict, value) ==
    /\ pc = "raw"
    /\ parameter_specs = <<idict>>
    /\ parameters = <<>>
    /\ params = <<>>
    /\ idx = 0
    /\ outcome = Running
    /\ args = [idict |-> idict, value |-> value]
    /\ obj = Idle
    /\ ret = Idle

InitInterval == \E idict \in RawIntervals : InitObject(idict, None)

NextInterval ==
    \/ parse_spec
    \/ interval_choose

SpecInterval == InitInterval /\ [][NextInterval]_vars

\* raw fixed specs
RawFixed ==
    {("name" :> nm) @@ ("type" :> "fixed") @@ ("value" :> v) :
        nm \in {"k", "a"},
        v \in WholeNums \cup HalfNums \cup {PyStr("bla"), PyStr("1"), None}}

InitFixed == \E idict \in RawFixed : InitObject(idict, None)

NextFixed ==
    \/ parse_spec
    \/ new_FixedSpec

SpecFixed == InitFixed /\ [][NextFixed]_vars

\* raw point2d specs: no, one or two declared properties, or a property list
\* holding a raw spec without a type
RawPoints ==
    {("name" :> "c") @@ ("type" :> "point2d") @@ x @@ ps :
        x \in Opt("x", {("min" :> PyInt(0)) @@ ("max" :> PyInt(1))}),
        ps \in Opt("properties",
                   { <<>>,
                     << ("name" :> "ab") @@ ("type" :> "string") >>,
                     << ("name" :> "ab") @@ ("type" :> "string"),
                        ("name" :> "b") @@ ("type" :> "interval") >>,
                     << ("name" :> "ab") >> })}

\* values tried on a Point2DSpec
PointValues ==
    {PyDict(x @@ y @@ ps) :
        x \in Opt("x", {PyInt(1), PyStr("0.5"), PyInt(MaxNum), PyStr("bla")}),
        y \in Opt("y", {PyInt(1), PyStr("bla")}),
        ps \in Opt("properties",
                   {PyDict(ab @@ b @@ z) :
                       ab \in Opt("ab", {PyStr("ja")}),
                       b \in Opt("b", {PyInt(1), PyStr("bla")}),
                       z \in Opt("z", {PyStr("b")})})}
    \cup {PyList(<<PyInt(1), PyInt(1)>>)}

InitPoint ==
    \E idict \in RawPoints, value \in PointValues : InitObject(idict, value)

NextPoint ==
    \/ parse_spec
    \/ spec_is_valid

SpecPoint == InitPoint /\ [][NextPoint]_vars

\* spec.choose(mapping) on a spec of any class
spec_choose ==
    /\ pc = "made"
    /\ obj.ok
    /\ \E mapping \in Scalars :
          ret' = [mapping |-> mapping, res |-> Spec_choose(obj.v, mapping)]
    /\ pc' = "chosen"
    /\ UNCHANGED <<parameters, parameter_specs, params, idx, outcome, args,
                   obj>>

\* the choices of raw choice specs: numbers, a half and strings, some of
\* them numerals
ChoiceItems == {PyInt(1), PyInt(2), PyFloat(Den + HalfSteps), PyStr("ja"),
                PyStr("2")}

\* raw choice specs: a list of up to MaxChoices choices (or an empty list, a
\* string, or no choices at all), every datatype and an optional default
RawChoices ==
    {("name" :> "d") @@ ("type" :> "choice") @@ ch @@ dt @@ df :
        ch \in Opt("choices",
                   {PyList(q) : q \in SeqsUpTo(ChoiceItems, MaxChoices)}
                   \cup {PyList(<<>>), PyStr("ja")}),
        dt \in Opt("dtype", {"int", "float", "str", "bool", "complex"}),
        df \in Opt("default", {PyInt(2), PyStr("ja")})}

\* values tried on a ChoiceSpec
ChoiceValues == {PyInt(1), PyInt(2), PyFloat(Den), PyFloat(Den + HalfSteps),
                 PyStr("ja"), PyStr("2"), PyBool(TRUE), None}

InitChoice ==
    \E idict \in RawChoices, value \in ChoiceValues : InitObject(idict, value)

NextChoice ==
    \/ parse_spec
    \/ spec_is_valid
    \/ spec_choose

SpecChoice == InitChoice /\ [][NextChoice]_vars

\* the state in which parse_parameters is about to be called with the one
\* raw spec idict and value supplied for its name
InitCall(idict, value) ==
    /\ pc = "call"
    /\ parameter_specs = <<idict>>
    /\ parameters = (idict.name :> value)
    /\ params = <<>>
    /\ idx = 0
    /\ outcome = Running
    /\ args = [idict |-> idict, value |-> value,
               parameters |-> (idict.name :> value),
               parameter_specs |-> <<idict>>]
    /\ obj = Idle
    /\ ret = Idle

\* what is done with one spec and one value: the spec is built and asked
\* to validate the value or to choose, or parse_parameters is called
NextObject ==
    \/ parse_spec
    \/ spec_is_valid
    \/ spec_choose
    \/ parse_parameters_enter
    \/ parse_parameters_loop
    \/ parse_parameters_return

\* raw string specs: lengths as ints, a numeral, a float and a word
RawStrings ==
    {("name" :> "a") @@ ("type" :> ty) @@ mn @@ mx @@ df :
        ty \in {"str", "string"},
        mn \in Opt("min_length",
                   {PyInt(n) : n \in -1..MaxNum} \cup {PyStr("2"), PyStr("bla")}),
        mx \in Opt("max_length",
                   {PyInt(n) : n \in -1..MaxNum}
                   \cup {PyStr("2"), PyFloat(2 * Den + HalfSteps)}),
        df \in Opt("default", {PyStr("bla")})}

\* values tried on a StringSpec: strings of length 0 to 10 and values that
\* are no strings
StringValues == {PyStr(""), PyStr("a"), PyStr("ja"), PyStr("bla"),
                 PyStr("None"), PyStr("properties"), PyInt(1), PyInt(-1),
                 None}

InitString ==
    \E idict \in RawStrings, value \in StringValues :
        InitObject(idict, value) \/ InitCall(idict, value)

SpecString == InitString /\ [][NextObject]_vars

\* raw list specs: contents of strings, of numbers in [1, 2], of short
\* strings, malformed contents and none; lengths from -1 to MaxItems
RawLists ==
    {("name" :> "a") @@ ("type" :> "list") @@ ct @@ mn @@ mx :
        ct \in Opt("contents",
                   { ("type" :> "str"),
                     ("type" :> "number") @@ ("min" :> PyInt(1))
                         @@ ("max" :> PyInt(2)),
                     ("type" :> "str") @@ ("max_length" :> PyInt(1)),
                     ("type" :> "str") @@ ("min_length" :> PyInt(2))
                         @@ ("max_length" :> PyInt(1)),
                     <<>> }),
        mn \in Opt("min_length", {PyInt(n) : n \in -1..MaxItems}),
        mx \in Opt("max_length", {PyInt(n) : n \in 0..MaxItems})}

\* the elements of the lists tried on a ListSpec
ListItems == {PyFloat(Den), PyFloat(3 * Den), PyInt(1), PyStr("a"), PyStr("1")}

\* values tried on a ListSpec: lists of up to MaxItems elements and values
\* that are no lists
ListValues ==
    {PyList(q) : q \in SeqsUpTo(ListItems, MaxItems)}
    \cup {PyList(<<>>), PyStr("ab"), PyStr("1"), PyInt(1), None}

InitList ==
    \E idict \in RawLists, value \in ListValues :
        InitObject(idict, value) \/ InitCall(idict, value)

SpecList == InitList /\ [][NextObject]_vars

\* raw specs of no recognized kind, with and without a name and a dtype
RawUnknown ==
    {nm @@ ("type" :> ty) @@ dt :
        nm \in Opt("name", {"a"}),
        ty \in {"not known", "Interval", "boolean"},
        dt \in Opt("dtype", {"int", "not known"})}

\* raw specs of every kind that has a construction-time check
InitConstruct ==
    \E idict \in RawIntervals \cup RawChoices \cup RawStrings \cup RawLists
                  \cup RawUnknown :
        InitObject(idict, None)

NextConstruct ==
    \/ parse_spec
    \/ spec_choose

SpecConstruct == InitConstruct /\ [][NextConstruct]_vars

\* raw specs of every kind whose coerce converts the supplied value
RawCoercing ==
    { ("name" :> "a") @@ ("type" :> "number") @@ ("min" :> PyInt(0))
          @@ ("max" :> PyInt(MaxNum)),
      ("name" :> "a") @@ ("type" :> "interval") @@ ("dtype" :> "int")
          @@ ("min" :> PyInt(0)) @@ ("max" :> PyInt(MaxNum)),
      ("name" :> "a") @@ ("type" :> "choice") @@ ("dtype" :> "int")
          @@ ("choices" :> PyList(<<PyInt(1), PyInt(2)>>)),
      ("name" :> "a") @@ ("type" :> "str"),
      ("name" :> "a") @@ ("type" :> "point2d"),
      ("name" :> "a") @@ ("type" :> "list")
          @@ ("contents" :> ("type" :> "number")) }

\* supplied values: numbers, numerals, a word, None, infinity, nan, lists
\* and mappings with and without the coordinates
CoercedValues ==
    { PyInt(1), PyFloat(Den + HalfSteps), PyStr("1"), PyStr("bla"), None,
      PInf, NaN, PyList(<<PyStr("1")>>), PyList(<<PyStr("bla")>>),
      PyList(<<PInf>>),
      PyDict(("x" :> PyStr("1")) @@ ("y" :> PyInt(1))),
      PyDict(("x" :> PyStr("bla")) @@ ("y" :> PyInt(1))),
      PyDict(("y" :> PyInt(1))) }

InitCoerce ==
    \E idict \in RawCoercing, value \in CoercedValues :
        InitObject(idict, value) \/ InitCall(idict, value)

SpecCoerce == InitCoerce /\ [][NextObject]_vars

\* parse_parameters called with one raw point2d spec and one point value
InitPointCall ==
    \E idict \in RawPoints, value \in PointValues : InitCall(idict, value)

NextPointCall ==
    \/ parse_parameters_enter
    \/ parse_parameters_loop
    \/ parse_parameters_return

SpecPointCall == InitPointCall /\ [][NextPointCall]_vars

----------------------------------------------------------------------------
(* The schema Chooser that orthogonal.sample imports from .parameter       *)
(* (orthogonal.py line 20).  parameter.py defines no Chooser, so the       *)
(* counter, the dispatch and the decoders follow sections 4.1 to 4.3 of    *)
(* the specification.  A schema node is a mapping with the keys            *)
(* properties (<<[name, schema], ...>> in declared order), items,          *)
(* minItems, maxItems, enum, ref, allOf, type, minimum, maximum,           *)
(* minLength, maxLength; a chooser is [schema, resolver].                  *)

\* section 4.1: the structural keywords in priority order, then the type
Keywords == <<"properties", "items", "enum", "ref", "allOf">>
TypeNames == {"number", "integer", "string"}

\* the handler a node dispatches to, or "" when nothing matches
Dispatch_mut(node) ==
    IF \E i \in 1..Len(Keywords) : Keywords[i] \in DOMAIN node
    THEN Keywords[CHOOSE i \in 1..Len(Keywords) :
                      /\ Keywords[i] \in DOMAIN node
                      /\ \A j \in (i + 1)..Len(Keywords) :
                             Keywords[j] \notin DOMAIN node]
    ELSE IF "type" \in DOMAIN node /\ node.type \in TypeNames THEN node.type
    ELSE ""

Dispatch(node) ==
    IF \E i \in 1..Len(Keywords) : Keywords[i] \in DOMAIN node
    THEN Keywords[CHOOSE i \in 1..Len(Keywords) :
                      /\ Keywords[i] \in DOMAIN node
                      /\ \A j \in 1..(i - 1) : Keywords[j] \notin DOMAIN node]
    ELSE IF "type" \in DOMAIN node /\ node.type \in TypeNames THEN node.type
    ELSE ""

\* section 4.2, Array: the number of elements an array node is given
item_count_mut(node) ==
    DictGet(node, "maxItems", DictGet(node, "minItems", 0))

item_count(node) == DictGet(node, "minItems", 0)

RECURSIVE SumSeq(_)
SumSeq(q) == IF q = <<>> THEN 0 ELSE Head(q) + SumSeq(Tail(q))

\* section 4.2: the number of scalars a node needs, -1 when a node is not
\* recognized or a reference does not resolve
RECURSIVE num_parameters(_, _)
num_parameters(self, node) ==
    LET kind == Dispatch(node)
        counts(q) == [i \in 1..Len(q) |-> num_parameters(self, q[i])]
        total(q) == IF \E i \in 1..Len(q) : counts(q)[i] < 0 THEN -1
                    ELSE SumSeq(counts(q))
    IN  CASE kind = "properties" ->
                total([i \in 1..Len(node.properties) |->
                          node.properties[i].schema])
          [] kind = "items" ->
                LET c == num_parameters(self, node.items)
                IN  IF c < 0 THEN -1 ELSE c * item_count(node)
          [] kind = "enum" -> 1
          [] kind = "ref" ->
                IF node.ref \in DOMAIN self.resolver
                THEN num_parameters(self, self.resolver[node.ref])
                ELSE -1
          [] kind = "allOf" -> total(node.allOf)
          [] kind \in TypeNames -> 1
          [] OTHER -> -1

\* sorted(names): lexicographic order
sorted_names_mut(properties) ==
    [i \in 1..Len(properties) |-> properties[i].name]

sorted_names(properties) ==
    SortSeq([i \in 1..Len(properties) |-> properties[i].name],
            LAMBDA a, b : StrRank(a) < StrRank(b))

\* the child schema declared under a property name
property_schema(properties, nm) ==
    properties[CHOOSE i \in 1..Len(properties) : properties[i].name = nm].schema

\* section 4.3, Number: the value a scalar x maps to between the bounds
choose_number(node, x) ==
    LET min == DictGet(node, "minimum", NInf)
        max == DictGet(node, "maximum", PInf)
        log1m == math_log(PySub(PyInt(1), x))
        c == PySub(x, PyFloat(HalfSteps))
        absc == IF FSign(c) < 0 THEN FNeg(c) ELSE c
        logc == math_log(PySub(PyInt(1), PyMul(PyInt(2), absc)))
    IN  IF IsFinite(min) /\ IsFinite(max)
        THEN Ok(AsFloat(PyAdd(PyMul(x, PySub(max, min)), min)))
        ELSE IF IsFinite(min)
        THEN IF ~log1m.ok THEN log1m
             ELSE Ok(AsFloat(PyAdd(PyMul(PyInt(-100), log1m.v), min)))
        ELSE IF IsFinite(max)
        THEN IF ~log1m.ok THEN log1m
             ELSE Ok(AsFloat(PyAdd(PyMul(PyInt(100), log1m.v), max)))
        ELSE IF NumEq(x, PyFloat(0)) THEN Ok(NInf)
        ELSE IF ~logc.ok THEN logc
        ELSE Ok(PyMul(PyInt(FSign(c) * 100), logc.v))

HexAlphabet == <<"0", "1", "2", "3", "4", "5", "6", "7", "8", "9", "a", "b",
                 "c", "d", "e", "f">>
DefaultStringLength == 10

\* the first len base-16 digits of the fraction k/Den, most significant
\* first: the reversed least-significant-first digits of floor(x * 16^len)
RECURSIVE HexDigits(_, _)
HexDigits(k, len) ==
    IF len = 0 THEN ""
    ELSE HexAlphabet[((k * 16) \div Den) + 1]
         \o HexDigits((k * 16) % Den, len - 1)

\* section 4.3, String
choose_string(node, x) ==
    LET minlen == DictGet(node, "minLength", DefaultStringLength)
        len == IF "maxLength" \in DOMAIN node /\ node.maxLength < minlen
               THEN node.maxLength ELSE minlen
    IN  IF x.ty = "str" THEN Ok(x)
        ELSE Ok(PyStr(HexDigits(x.n, len)))

\* the result of a decode: the value, the cursor after it and the slots read
Decoded(v, cursor, reads) ==
    [ok |-> TRUE, v |-> v, cursor |-> cursor, reads |-> reads]

\* values[cur] of the sample vector, slots counted from 0
Slot(values, cur) ==
    IF cur >= 0 /\ cur < Len(values) THEN Ok(values[cur + 1])
    ELSE Raise("IndexError")

\* a decoder of one scalar: reads the slot at the cursor and advances it; v
\* is the decoded value of that slot, looked at only when the slot exists
OneScalar(values, cur, reads, v) ==
    LET x == Slot(values, cur)
    IN  IF ~x.ok THEN x
        ELSE IF ~v.ok THEN v
        ELSE Decoded(v.v, cur + 1, Append(reads, cur))

\* section 4.3, Conjunction: the mappings of the branches merged, a key of
\* several branches keeping the value of the last of them
merged_mut(branches) ==
    PyDict([k \in UNION {DOMAIN branches[i].d : i \in 1..Len(branches)} |->
               branches[CHOOSE i \in 1..Len(branches) :
                            /\ k \in DOMAIN branches[i].d
                            /\ \A j \in 1..(i - 1) :
                                   k \notin DOMAIN branches[j].d].d[k]])

merged(branches) ==
    PyDict([k \in UNION {DOMAIN branches[i].d : i \in 1..Len(branches)} |->
               branches[CHOOSE i \in 1..Len(branches) :
                            /\ k \in DOMAIN branches[i].d
                            /\ \A j \in (i + 1)..Len(branches) :
                                   k \notin DOMAIN branches[j].d].d[k]])

\* section 4.3: decode node from the slots of values at the cursor cur
RECURSIVE choose_at(_, _, _, _, _)
choose_at(self, node, values, cur, reads) ==
    LET kind == Dispatch(node)
        \* decode the schemas q[from..] one after the other
        RECURSIVE each(_, _, _)
        each(q, from, acc) ==
            IF from > Len(q) \/ ~acc.ok THEN acc
            ELSE LET d == choose_at(self, q[from], values, acc.cursor,
                                    acc.reads)
                 IN  IF ~d.ok THEN d
                     ELSE each(q, from + 1,
                               Decoded(Append(acc.v, d.v), d.cursor, d.reads))
        start == Decoded(<<>>, cur, reads)
    IN  CASE kind = "properties" ->
                LET names == sorted_names(node.properties)
                    ds == each([i \in 1..Len(names) |->
                                   property_schema(node.properties, names[i])],
                               1, start)
                IN  IF ~ds.ok THEN ds
                    ELSE Decoded(PyDict([nm \in {names[i] : i \in 1..Len(names)}
                                     |-> ds.v[CHOOSE i \in 1..Len(names) :
                                                  names[i] = nm]]),
                                 ds.cursor, ds.reads)
          [] kind = "items" ->
                LET ds == each([i \in 1..item_count(node) |-> node.items],
                               1, start)
                IN  IF ~ds.ok THEN ds
                    ELSE Decoded(PyList(ds.v), ds.cursor, ds.reads)
          [] kind = "enum" ->
                OneScalar(values, cur, reads,
                    LET x == Slot(values, cur).v
                        i == py_int(PyMul(x, PyInt(Len(node.enum))))
                    IN  IF ~i.ok THEN i
                        ELSE IF i.v.n < 0 \/ i.v.n >= Len(node.enum)
                        THEN Raise("IndexError")
                        ELSE Ok(node.enum[i.v.n + 1]))
          [] kind = "ref" ->
                IF node.ref \in DOMAIN self.resolver
                THEN choose_at(self, self.resolver[node.ref], values, cur,
                               reads)
                ELSE Raise("SchemaResolutionError")
          [] kind = "allOf" ->
                LET ds == each(node.allOf, 1, start)
                IN  IF ~ds.ok THEN ds
                    ELSE IF \E i \in 1..Len(ds.v) : ds.v[i].ty # "dict"
                    THEN Raise("TypeError")
                    ELSE Decoded(merged(ds.v), ds.cursor, ds.reads)
          [] kind = "number" ->
                OneScalar(values, cur, reads,
                          choose_number(node, Slot(values, cur).v))
          [] kind = "integer" ->
                OneScalar(values, cur, reads,
                    LET r == choose_number(node, Slot(values, cur).v)
                    IN  IF ~r.ok THEN r ELSE py_int(r.v))
          [] kind = "string" ->
                OneScalar(values, cur, reads,
                          choose_string(node, Slot(values, cur).v))
          [] OTHER -> Raise("UnrecognizedSchemaError")

\* Chooser.num_parameters() and Chooser.choose(sample) on the root schema
Chooser_num_parameters(self) == num_parameters(self, self.schema)
Chooser_choose(self, values) == choose_at(self, self.schema, values, 0, <<>>)

----------------------------------------------------------------------------
(* orthogonal.sample *)

\* lines 47-48: chooser = Chooser(parameter_specs);
\* sample_dimensions = chooser.num_parameters()
sample_dimensions_mut(chooser) ==
    IF Dispatch(chooser.schema) = "properties"
    THEN Len(chooser.schema.properties)
    ELSE Chooser_num_parameters(chooser)

sample_dimensions(chooser) == Chooser_num_parameters(chooser)

\* line 50: the rows pyDOE.lhs(n, samples) may hold, n scalars of [0, 1)
\* each: the lower end, the middle and the last grid point below 1
LhsScalars == {PyFloat(0), PyFloat(HalfSteps), PyFloat(Den - 1)}

RECURSIVE lhs_rows(_)
lhs_rows(n) ==
    IF n = 0 THEN {<<>>}
    ELSE {Append(row, x) : row \in lhs_rows(n - 1), x \in LhsScalars}

\* lines 44-50: the design is drawn for the dimensions of the schema
sample_call ==
    /\ pc = "sample"
    /\ LET n == sample_dimensions(args.chooser)
       IN  IF n < 0
           THEN /\ outcome' = Raised("UnrecognizedSchemaError", "sample", 0, {})
                /\ pc' = "failed"
                /\ UNCHANGED idx
           ELSE /\ outcome' = Returned(n)
                /\ idx' = 0
                /\ pc' = "rows"
    /\ UNCHANGED <<parameters, parameter_specs, params, args, obj, ret>>

\* line 52: the generator decodes the next row of the design
sample_yield ==
    /\ pc = "rows"
    /\ idx < args.samples
    /\ \E row \in lhs_rows(outcome.v) :
          /\ ret' = row
          /\ obj' = Chooser_choose(args.chooser, row)
    /\ idx' = idx + 1
    /\ UNCHANGED <<pc, parameters, parameter_specs, params, outcome, args>>

NumberUnit == ("type" :> "number") @@ ("minimum" :> PyInt(0))
              @@ ("maximum" :> PyInt(MaxNum))
NumberTail == ("type" :> "number") @@ ("minimum" :> PyInt(1))
IntegerUnit == ("type" :> "integer") @@ ("minimum" :> PyInt(-MaxNum))
               @@ ("maximum" :> PyInt(MaxNum))
StringShort == ("type" :> "string") @@ ("maxLength" :> 2)
EnumThree == ("enum" :> <<PyStr("ja"), PyStr("da"), PyInt(1)>>)
RefUnit == ("ref" :> "unit")

\* array schemas of every minimum length, with and without a maximum
ArraySchemas(child) ==
    {("items" :> child) @@ ("minItems" :> k) @@ mx :
        k \in 0..MaxItems, mx \in Opt("maxItems", {MaxItems + 1})}

\* object schemas of two properties, in either declared order
ObjectSchemas(children) ==
    {("properties" :> << [name |-> n1, schema |-> c1],
                         [name |-> n2, schema |-> c2] >>) :
        n1 \in {"a", "ab", "b"},
        n2 \in {"a", "ab", "b"},
        c1 \in children, c2 \in children} \
    {("properties" :> << [name |-> n, schema |-> c1],
                         [name |-> n, schema |-> c2] >>) :
        n \in {"a", "ab", "b"}, c1 \in children, c2 \in children}

\* nodes that carry several structural keywords or a keyword and a type,
\* and nodes that carry none
ManyKeywords ==
    { ("items" :> NumberUnit) @@ ("minItems" :> 1) @@ EnumThree
          @@ ("type" :> "string"),
      EnumThree @@ RefUnit @@ ("type" :> "number"),
      RefUnit @@ ("allOf" :> << ("properties" :>
                     << [name |-> "a", schema |-> EnumThree] >>) >>),
      ("allOf" :> << ("properties" :>
           << [name |-> "a", schema |-> EnumThree] >>) >>)
          @@ ("type" :> "integer"),
      ("properties" :> << [name |-> "a", schema |-> EnumThree] >>)
          @@ ("allOf" :> << ("properties" :>
                 << [name |-> "b", schema |-> NumberUnit],
                    [name |-> "a", schema |-> NumberUnit] >>) >>),
      ("title" :> "bla"),
      ("title" :> "bla") @@ ("type" :> "object") }

Schemas ==
    {NumberUnit, NumberTail, IntegerUnit, StringShort, EnumThree, RefUnit,
     ("type" :> "number"), ("type" :> "boolean"), ("ref" :> "nowhere"),
     ("properties" :> <<>>),
     ("properties" :> << [name |-> "b", schema |-> ("type" :> "boolean")],
                         [name |-> "a", schema |-> RefUnit] >>),
     ("items" :> ("properties" :> << [name |-> "b", schema |-> EnumThree],
                                     [name |-> "a", schema |-> NumberUnit] >>))
         @@ ("minItems" :> 2)}
    \cup ManyKeywords
    \cup ArraySchemas(NumberUnit)
    \cup ObjectSchemas({NumberUnit, EnumThree,
                        ("items" :> IntegerUnit) @@ ("minItems" :> 2)})
    \cup {("properties" :> << [name |-> "b", schema |-> o],
                              [name |-> "a", schema |-> StringShort] >>)
             @@ ("items" :> NumberUnit) @@ ("minItems" :> 1) :
             o \in ObjectSchemas({IntegerUnit, RefUnit})}
    \cup {("allOf" :> << ("properties" :>
                             << [name |-> "b", schema |-> NumberUnit],
                                [name |-> "a", schema |-> NumberUnit] >>), o >>) :
             o \in ObjectSchemas({EnumThree})}

Resolver == ("unit" :> NumberUnit)

\* the numbers of samples asked of orthogonal.sample
SampleCounts == {1, 2}

InitSample ==
    /\ pc = "sample"
    /\ \E schema \in Schemas, samples \in SampleCounts :
          args = [chooser |-> [schema |-> schema, resolver |-> Resolver],
                  samples |-> samples]
    /\ parameter_specs = <<>>
    /\ parameters = <<>>
    /\ params = <<>>
    /\ idx = 0
    /\ outcome = Running
    /\ obj = Idle
    /\ ret = Idle

NextSample ==
    \/ sample_call
    \/ sample_yield

SpecSample == InitSample /\ [][NextSample]_vars

----------------------------------------------------------------------------
(* Properties of parse_parameters *)

DeclaredNames == {args.parameter_specs[i].name :
                      i \in 1..Len(args.parameter_specs)}
SuppliedNames == DOMAIN args.parameters

\* C1: when parse_parameters returns, the keys of the result are exactly the
\* declared spec names, and each value is the supplied value coerced by its
\* spec and accepted by that spec's is_valid.
C1_ResultCoercedAndValid ==
    (pc = "done" /\ outcome.ok) =>
        /\ DOMAIN outcome.v = DeclaredNames
        /\ \A i \in 1..Len(args.parameter_specs) :
              LET raw == args.parameter_specs[i]
                  spec == parse_parameter_spec(raw).res
                  coerced == Spec_coerce(spec.v, args.parameters[raw.name])
              IN  /\ spec.ok
                  /\ raw.name \in SuppliedNames
                  /\ coerced.ok
                  /\ outcome.v[raw.name] = coerced.v
                  /\ Spec_is_valid(spec.v, outcome.v[raw.name]) = Ok(TRUE)

\* a call with two specs returns, and coercion changed a supplied value
C1_Witness ==
    /\ pc = "done"
    /\ outcome.ok
    /\ Len(args.parameter_specs) = 2
    /\ \E nm \in DOMAIN outcome.v : outcome.v[nm] # args.parameters[nm]

\* C2: a supplied name that no spec declares makes parse_parameters fail with
\* the unknown-parameter error naming exactly the extra names, whatever the
\* other parameters and specs are; no result is ever returned.
C2_UnknownNameRejected ==
    (SuppliedNames \ DeclaredNames # {}) =>
        /\ ~outcome.ok
        /\ pc = "done" =>
              outcome = Raised("ValueError", "unknown", 0,
                               SuppliedNames \ DeclaredNames)

\* the extra name z is reported although a declared parameter is supplied too
C2_Witness ==
    /\ pc = "done"
    /\ outcome.site = "unknown"
    /\ outcome.names = {"z"}
    /\ SuppliedNames \cap DeclaredNames # {}

MissingAt == {i \in 1..Len(args.parameter_specs) :
                  args.parameter_specs[i].name \notin SuppliedNames}
FirstMissing == CHOOSE i \in MissingAt : \A j \in MissingAt : i <= j

----------------------------------------------------------------------------
(* Properties of Point2DSpec *)

\* the value under test without the property names the spec does not declare
WithoutUndeclared ==
    LET declared == {obj.v.properties.items[i].name :
                         i \in 1..Len(obj.v.properties.items)}
        props == args.value.d["properties"].d
    IN  PyDict([args.value.d EXCEPT !["properties"] =
                   PyDict([k \in (DOMAIN props) \cap declared |-> props[k]])])

\* the value under test is a mapping whose x and y, where present, can be
\* coerced, and whose properties mapping holds a name the spec, which has a
\* list of declared properties, does not declare
HasUndeclaredProperty ==
    /\ obj.ok
    /\ obj.v.properties # None
    /\ args.value.ty = "dict"
    /\ \A k \in {"x", "y"} \cap DOMAIN args.value.d :
          Spec_coerce(obj.v[k], args.value.d[k]).ok
    /\ "properties" \in DOMAIN args.value.d
    /\ args.value.d["properties"].ty = "dict"
    /\ \E k \in DOMAIN args.value.d["properties"].d :
          \A i \in 1..Len(obj.v.properties.items) :
              obj.v.properties.items[i].name # k

\* C6: Point2DSpec.is_valid returns False for every point value whose
\* properties mapping holds a name outside the declared properties of the
\* spec, also when x, y and the declared properties are valid.
C6_UndeclaredPropertyInvalid ==
    (pc = "validated" /\ HasUndeclaredProperty) => ret = Ok(FALSE)

\* a value is rejected only for its undeclared property: without it the same
\* value is valid
C6_Witness ==
    /\ pc = "validated"
    /\ HasUndeclaredProperty
    /\ ret = Ok(FALSE)
    /\ Len(obj.v.properties.items) > 0
    /\ Spec_is_valid(obj.v, WithoutUndeclared) = Ok(TRUE)

----------------------------------------------------------------------------
(* Properties of IntervalSpec *)

\* the bounds of the raw spec under test, coerced as the constructor does
RawDtype == DictGet(args.idict, "dtype", "float")
RawMin == coerce_if_set(RawDtype, DictGet(args.idict, "min", None), NInf)
RawMax == coerce_if_set(RawDtype, DictGet(args.idict, "max", None), PInf)
BoundsConstruct ==
    /\ RawDtype \in {"int", "float"}
    /\ RawMin.ok
    /\ RawMax.ok
    /\ NumLe(RawMin.v, RawMax.v)

\* x / y rounded toward zero, as a value of the datatype dtype: x and y are
\* numerators over Den
Quotient(dtype, x, y) ==
    IF dtype = "float" THEN PyFloat(TruncDiv(x, y))
    ELSE PyInt(TruncDiv(x, y * Den))

\* the derived default and the bounds of every constructed interval
DefaultDerived ==
    (pc = "made" /\ obj.ok) =>
        LET self == obj.v
            lo == AsFloat(self.min).n
            hi == AsFloat(self.max).n
            has(k) == k \in DOMAIN args.idict
        IN  /\ NumLe(self.min, self.default)
            /\ NumLe(self.default, self.max)
            /\ ~has("default") =>
                  /\ (has("min") /\ has("max")) =>
                         self.default = Quotient(self.dtype, lo + hi, 2)
                  /\ (has("min") /\ ~has("max")) => self.default = self.min
                  /\ (~has("min") /\ has("max")) => self.default = self.max

\* C7 as stated: the default derived from the bounds is the midpoint coerced
\* to the datatype, or the one bound given; min <= default <= max after
\* every successful construction; and an explicit default outside [min, max]
\* makes the construction fail.
C7_ExplicitDefaultOutsideFails ==
    /\ DefaultDerived
    /\ (/\ pc = "made"
        /\ BoundsConstruct
        /\ "default" \in DOMAIN args.idict
        /\ IsNum(args.idict.default)
        /\ ~(/\ NumLe(RawMin.v, args.idict.default)
             /\ NumLe(args.idict.default, RawMax.v))) => ~obj.ok

\* C7 amended: as C7, but it is the explicit default after coercion to the
\* datatype that must lie in [min, max]: the default stored is the coerced
\* one, and the construction fails when the default cannot be coerced or the
\* coerced default lies outside [min, max].
C7_CoercedDefaultWithin ==
    /\ DefaultDerived
    /\ (pc = "made" /\ BoundsConstruct /\ "default" \in DOMAIN args.idict) =>
          LET coerced == ParameterDatatype_coerce(RawDtype, args.idict.default)
          IN  IF /\ coerced.ok
                 /\ NumLe(RawMin.v, coerced.v)
                 /\ NumLe(coerced.v, RawMax.v)
              THEN obj.ok /\ obj.v.default = coerced.v
              ELSE ~obj.ok

\* an int interval with bounds of odd sum gets the truncated midpoint
C7_Witness ==
    /\ pc = "made"
    /\ obj.ok
    /\ DOMAIN args.idict = {"name", "type", "dtype", "min", "max"}
    /\ obj.v.dtype = "int"
    /\ (obj.v.min.n + obj.v.max.n) % 2 = 1
    /\ obj.v.min.n < 0
    /\ 2 * obj.v.default.n # obj.v.min.n + obj.v.max.n

\* C8: with both bounds finite, choose(x) for x in [0, 1) is
\* x * (max - min) + min coerced to the datatype; Interval(min=0, max=4)
\* gives choose(0.5) == 2.
C8_ChooseLinear ==
    (/\ pc = "chosen"
     /\ IsFinite(obj.v.min)
     /\ IsFinite(obj.v.max)) =>
        LET lo == AsFloat(obj.v.min).n
            hi == AsFloat(obj.v.max).n
            x == ret.mapping.n
        IN  /\ ret.res = Ok(Quotient(obj.v.dtype, x * (hi - lo) + lo * Den, Den))
            /\ (lo = 0 /\ hi = 4 * Den /\ 2 * x = Den) =>
                   NumEq(ret.res.v, PyInt(2))

\* Interval(min=0, max=4).choose(0.5) is the float 2.0
C8_Witness ==
    /\ pc = "chosen"
    /\ obj.v.dtype = "float"
    /\ obj.v.min = PyFloat(0)
    /\ obj.v.max = PyFloat(4 * Den)
    /\ ret.mapping = PyFloat(HalfSteps)
    /\ ret.res = Ok(PyFloat(2 * Den))

\* C9: choose(x) for x in [0, 1) lies in [min, max] when both bounds are
\* finite, in [min, +inf) when only min is, in (-inf, max] when only max is,
\* and is -inf for x = 0.0 when neither is.
C9_ChooseWithinInterval ==
    pc = "chosen" =>
        LET self == obj.v
            x == ret.mapping
            v == ret.res.v
        IN  /\ ret.res.ok
            /\ (IsFinite(self.min) /\ IsFinite(self.max)) =>
                   NumLe(self.min, v) /\ NumLe(v, self.max)
            /\ (IsFinite(self.min) /\ ~IsFinite(self.max)) =>
                   NumLe(self.min, v) /\ IsFinite(v)
            /\ (~IsFinite(self.min) /\ IsFinite(self.max)) =>
                   NumLe(v, self.max) /\ IsFinite(v)
            /\ (~IsFinite(self.min) /\ ~IsFinite(self.max)
                    /\ NumEq(x, PyFloat(0))) => v = NInf

----------------------------------------------------------------------------
(* Properties of FixedSpec *)

\* C10: a FixedSpec can be built from a name and a literal, by the
\* constructor or from a raw spec of type fixed; then is_valid(v) holds
\* exactly for v equal to the literal and choose(s) is the literal for
\* every scalar s.
C10_FixedSpecValidatesLiteral ==
    pc = "made" =>
        /\ obj.ok
        /\ \A v \in WholeNums \cup {PyStr("bla"), None} :
              FixedSpec_is_valid(obj.v, v) = Ok(PyEq(v, args.idict.value))
        /\ \A s \in Scalars :
              FixedSpec_choose(obj.v, s) = Ok(args.idict.value)

----------------------------------------------------------------------------
(* Properties of the Chooser under orthogonal.sample *)

\* a row of the design has been decoded
RowDecoded == pc = "rows" /\ idx > 0

\* C4: a sample vector as long as the cardinality of the schema is read slot
\* by slot from left to right, every slot once and none past the end, and the
\* cursor ends at the length of the vector.
C4_VectorConsumedExactly ==
    RowDecoded =>
        /\ Len(ret) = Chooser_num_parameters(args.chooser)
        /\ obj.ok
        /\ obj.reads = [i \in 1..Len(ret) |-> i - 1]
        /\ obj.cursor = Len(ret)

\* a nested object schema of three scalars has been decoded
C4_Witness ==
    /\ RowDecoded
    /\ obj.ok
    /\ Len(ret) = 3
    /\ Dispatch(args.chooser.schema) = "properties"
    /\ \E i \in 1..2 :
          Dispatch(args.chooser.schema.properties[i].schema) = "properties"

\* the properties of the root object and where each starts in the vector: the
\* summed cardinality of the properties whose names sort before it
RootProperties == args.chooser.schema.properties
OffsetOf(p) ==
    SumSeq([i \in 1..Len(RootProperties) |->
               IF StrRank(RootProperties[i].name) < StrRank(p.name)
               THEN num_parameters(args.chooser, RootProperties[i].schema)
               ELSE 0])
Reversed(q) == [i \in 1..Len(q) |-> q[Len(q) + 1 - i]]

\* C5: an object is decoded in lexicographic order of its property names,
\* whatever the declared order: each property takes the scalars from the
\* summed cardinality of the properties sorted before it, and the same schema
\* declared in the opposite order decodes the same vector to the same value.
C5_PropertiesInNameOrder ==
    (RowDecoded /\ obj.ok /\ Dispatch(args.chooser.schema) = "properties") =>
        /\ \A i \in 1..Len(RootProperties) :
              LET p == RootProperties[i]
                  n == num_parameters(args.chooser, p.schema)
                  d == choose_at(args.chooser, p.schema, ret, OffsetOf(p), <<>>)
              IN  /\ d.ok
                  /\ d.reads = [j \in 1..n |-> OffsetOf(p) + j - 1]
                  /\ obj.v.d[p.name] = d.v
        /\ Chooser_choose([args.chooser EXCEPT !.schema =
                               [@ EXCEPT !.properties = Reversed(@)]], ret)
               = obj

\* an object declared out of name order, with children of different
\* cardinality, whose first declared property does not take the first scalar
C5_Witness ==
    /\ RowDecoded
    /\ obj.ok
    /\ Dispatch(args.chooser.schema) = "properties"
    /\ Len(RootProperties) = 2
    /\ StrRank(RootProperties[2].name) < StrRank(RootProperties[1].name)
    /\ num_parameters(args.chooser, RootProperties[2].schema) = 2
    /\ OffsetOf(RootProperties[1]) = 2
    /\ ret[1] # ret[3]

----------------------------------------------------------------------------
(* Properties of ChoiceSpec *)

\* the choices of the raw spec under test, each coerced to its datatype
GivenChoices ==
    [i \in 1..Len(args.idict.choices.items) |->
        ParameterDatatype_coerce(obj.v.dtype, args.idict.choices.items[i]).v]

\* a sequence holds no pair out of order
IsSorted(q) == \A i \in 1..Len(q) : \A j \in i..Len(q) : ~PyLt(q[j], q[i])

\* two sequences hold the same elements the same number of times
SameElements(q, r) ==
    /\ Len(q) = Len(r)
    /\ \A i \in 1..Len(q) :
          Cardinality({j \in 1..Len(q) : q[j] = q[i]})
              = Cardinality({j \in 1..Len(r) : r[j] = q[i]})

\* the parts of C11 that do not concern the default: the choices held are
\* the given ones coerced, in sorted order, and is_valid accepts exactly the
\* values of the datatype that equal one of them
ChoicesSortedAndDecisive ==
    /\ (pc \in {"made", "validated", "chosen"} /\ obj.ok) =>
          /\ IsSorted(obj.v.choices)
          /\ SameElements(obj.v.choices, GivenChoices)
    /\ pc = "validated" =>
          ret = Ok(/\ args.value.ty = obj.v.dtype
                   /\ \E i \in 1..Len(GivenChoices) :
                         PyEq(args.value, GivenChoices[i]))

\* C11 as stated: the choice set is held sorted, is_valid accepts exactly the
\* values of the datatype equal to a choice, and without a given default the
\* default is the first choice of the set held.
C11_DefaultFirstOfSorted ==
    /\ ChoicesSortedAndDecisive
    /\ (pc = "made" /\ obj.ok /\ "default" \notin DOMAIN args.idict) =>
          obj.v.default = obj.v.choices[1]

\* C11 amended: as C11, but without a given default the default is the
\* first element of the list of choices as it was given, coerced to the
\* datatype, wherever the sort puts that element.
C11_DefaultFirstGiven ==
    /\ ChoicesSortedAndDecisive
    /\ (pc = "made" /\ obj.ok /\ "default" \notin DOMAIN args.idict) =>
          obj.v.default = GivenChoices[1]

\* a value is accepted by a spec whose choices were given out of order and
\* whose default is not the least choice
C11_Witness ==
    /\ pc = "validated"
    /\ ret = Ok(TRUE)
    /\ "default" \notin DOMAIN args.idict
    /\ Len(obj.v.choices) = 3
    /\ obj.v.default # obj.v.choices[1]
    /\ args.value # obj.v.default

\* C12: for a Choice of n choices and a scalar v in [0, 1), choose(v) is the
\* choice at index floor(v * n): the first one for 0.0, the last one for the
\* scalar just below 1.0, never out of range, and a value is_valid accepts.
C12_ChooseFloorIndex ==
    (pc = "chosen" /\ obj.v.cls = "ChoiceSpec") =>
        LET n == Len(obj.v.choices)
            x == ret.mapping.n
            i == (x * n) \div Den
        IN  /\ i \in 0..(n - 1)
            /\ ret.res = Ok(obj.v.choices[i + 1])
            /\ x = 0 => ret.res.v = obj.v.choices[1]
            /\ (x = Den - 1 /\ n <= Den) => ret.res.v = obj.v.choices[n]
            /\ ChoiceSpec_is_valid(obj.v, ret.res.v) = Ok(TRUE)

\* the scalar just below 1.0 picks the last of three distinct choices
C12_Witness ==
    /\ pc = "chosen"
    /\ obj.v.cls = "ChoiceSpec"
    /\ Len(obj.v.choices) = 3
    /\ obj.v.choices[1] # obj.v.choices[3]
    /\ ret.mapping = PyFloat(Den - 1)
    /\ ret.res = Ok(obj.v.choices[3])

----------------------------------------------------------------------------
(* Properties of StringSpec *)

\* the length bounds the raw spec under test asks for: the given ones as
\* ints, 0 and sys.maxsize where none is given
AskedMinLen ==
    IF "min_length" \in DOMAIN args.idict
    THEN py_int(args.idict.min_length).v.n ELSE 0
AskedMaxLen ==
    IF "max_length" \in DOMAIN args.idict
    THEN py_int(args.idict.max_length).v.n ELSE sys_maxsize

\* the value under test is a string whose length lies within the bounds
LengthWithin(value) ==
    /\ value.ty = "str"
    /\ AskedMinLen <= Len(value.s)
    /\ Len(value.s) <= AskedMaxLen

\* C13: a String spec accepts exactly the strings whose length L satisfies
\* min_len <= L <= max_len, where min_len is 0 and max_len the largest size
\* when not given; parse_parameters fails for a string shorter than
\* min_length or longer than max_length.
C13_StringLengthWithin ==
    /\ (pc \in {"made", "validated", "chosen"} /\ obj.ok) =>
          /\ obj.v.min_len = AskedMinLen
          /\ obj.v.max_len = AskedMaxLen
    /\ pc = "validated" => ret = Ok(LengthWithin(args.value))
    /\ (/\ pc = "done"
        /\ parse_parameter_spec(args.idict).res.ok
        /\ args.value.ty = "str"
        /\ ~LengthWithin(args.value)) =>
          outcome = Raised("ValueError", "invalid", 1, {args.idict.name})
    /\ (pc = "done" /\ outcome.ok) =>
          LengthWithin(outcome.v[args.idict.name])

\* parse_parameters rejects 'bla' for a string spec with max_length 2
C13_Witness ==
    /\ pc = "done"
    /\ outcome.site = "invalid"
    /\ args.value = PyStr("bla")
    /\ "max_length" \in DOMAIN args.idict
    /\ args.idict.max_length = PyInt(2)
    /\ "min_length" \notin DOMAIN args.idict

\* the characters of the base-16 alphabet
HexChars == {HexAlphabet[i] : i \in 1..Len(HexAlphabet)}

\* C19: every spec kind supports choose(scalar); a String spec with no
\* length bounds decodes every scalar of [0, 1) to a string of exactly 10
\* characters of the alphabet 0123456789abcdef.
C19_StringChooseHex ==
    (/\ pc = "chosen"
     /\ "min_length" \notin DOMAIN args.idict
     /\ "max_length" \notin DOMAIN args.idict) =>
        /\ ret.res.ok
        /\ ret.res.v.ty = "str"
        /\ Len(ret.res.v.s) = 10
        /\ \A i \in 1..10 : SubSeq(ret.res.v.s, i, i) \in HexChars

----------------------------------------------------------------------------
(* Properties of ListSpec *)

\* the content spec of the raw list spec under test
AskedContents == parse_parameter_spec(args.idict).res.v.content_spec

\* value is a list within the length bounds whose elements all validate
\* against the content spec
ListAccepted(value) ==
    /\ value.ty = "list"
    /\ \A i \in 1..Len(value.items) :
           Spec_is_valid(AskedContents, value.items[i]) = Ok(TRUE)
    /\ AskedMinLen <= Len(value.items)
    /\ Len(value.items) <= AskedMaxLen

\* C20: a List spec accepts a value if and only if it is a list, every
\* element validates against the content spec and its length L satisfies
\* min_len <= L <= max_len; the list parse_parameters returns is such a list
\* and holds every element of the supplied value coerced by the content spec.
C20_ListElementsAndLength ==
    /\ pc = "validated" =>
          /\ ret = Ok(TRUE) <=> ListAccepted(args.value)
          /\ ret.ok \/ \E i \in 1..Len(args.value.items) :
                 ~Spec_is_valid(AskedContents, args.value.items[i]).ok
    /\ (pc = "done" /\ outcome.ok) =>
          LET given == PyIter(args.value).v
              result == outcome.v[args.idict.name]
          IN  /\ ListAccepted(result)
              /\ Len(result.items) = Len(given)
              /\ \A i \in 1..Len(given) :
                     Ok(result.items[i]) = Spec_coerce(AskedContents, given[i])
    /\ (/\ pc = "done"
        /\ parse_parameter_spec(args.idict).res.ok
        /\ args.value.ty = "list"
        /\ ~ListAccepted(args.value)
        /\ \A i \in 1..Len(args.value.items) :
               Spec_coerce(AskedContents, args.value.items[i])
                   = Ok(args.value.items[i])) =>
          ~outcome.ok

\* parse_parameters returns [1.0, 1.0] for the list ['1', 1] of numbers
C20_Witness ==
    /\ pc = "done"
    /\ outcome.ok
    /\ args.value = PyList(<<PyStr("1"), PyInt(1)>>)
    /\ outcome.v[args.idict.name] = PyList(<<PyFloat(Den), PyFloat(Den)>>)
    /\ "min_length" \in DOMAIN args.idict
    /\ args.idict.min_length = PyInt(2)

----------------------------------------------------------------------------
(* Properties of the constructors *)

\* the kind of the raw spec under test
AskedKind ==
    CASE args.idict.type \in {"interval", "number"} -> "interval"
      [] args.idict.type \in {"str", "string"} -> "str"
      [] OTHER -> args.idict.type

\* what a constructed spec object guarantees
WellFormed(spec) ==
    CASE spec.cls = "IntervalSpec" -> NumLe(spec.min, spec.max)
      [] spec.cls \in {"StringSpec", "ListSpec"} ->
            0 <= spec.min_len /\ spec.min_len <= spec.max_len
      [] spec.cls = "ChoiceSpec" -> spec.choices # <<>>
      [] OTHER -> TRUE

\* the raw spec under test asks for an interval whose minimum, as a value of
\* the datatype, exceeds its maximum
IntervalMalformed ==
    /\ AskedKind = "interval"
    /\ RawDtype \in {"int", "float"}
    /\ RawMin.ok
    /\ RawMax.ok
    /\ NumGt(RawMin.v, RawMax.v)

\* the raw string or list spec under test asks for lengths, as ints, with
\* min_length > max_length or min_length < 0; the contents of a list spec
\* are well-formed themselves
LengthsMalformed ==
    LET mn == coerce_if_set("int", DictGet(args.idict, "min_length", None),
                            PyInt(0))
        mx == coerce_if_set("int", DictGet(args.idict, "max_length", None),
                            PyInt(sys_maxsize))
    IN  /\ AskedKind \in {"str", "list"}
        /\ mn.ok
        /\ mx.ok
        /\ mn.v.n > mx.v.n \/ mn.v.n < 0
        /\ AskedKind = "list" =>
              /\ "contents" \in DOMAIN args.idict
              /\ parse_parameter_spec(
                     DictUpdate(args.idict.contents,
                                "name" :> "contents")).res.ok

\* the raw choice spec under test has choices that are no list or an empty
\* list
ChoicesMalformed ==
    /\ AskedKind = "choice"
    /\ "choices" \in DOMAIN args.idict
    /\ args.idict.choices.ty # "list" \/ args.idict.choices.items = <<>>

\* C14: parse_parameter_spec never returns a spec object that violates its
\* construction-time invariant; it fails with ValueError for an interval
\* with min > max, for a string or list spec with min_length > max_length or
\* min_length < 0, for choices that are not a list and for an empty choice
\* list.
C14_MalformedSpecRejected ==
    pc = "made" =>
        /\ obj.ok => WellFormed(obj.v)
        /\ (IntervalMalformed \/ LengthsMalformed \/ ChoicesMalformed) =>
              obj = Raise("ValueError")

\* each of the malformed kinds has been rejected
C14_WitnessKind(kind) ==
    /\ pc = "made"
    /\ AskedKind = kind
    /\ obj = Raise("ValueError")
    /\ IntervalMalformed \/ LengthsMalformed \/ ChoicesMalformed

C14_Witness ==
    /\ C14_WitnessKind("list")
    /\ args.idict.min_length = PyInt(2)
    /\ args.idict.max_length = PyInt(1)

----------------------------------------------------------------------------
(* Properties of the coercion in parse_parameters *)

\* the spec object of the raw spec under test
AskedSpec == parse_parameter_spec(args.idict).res

\* C15: when the supplied value cannot be coerced to the datatype of its
\* spec, parse_parameters fails with ValueError and returns no result; a
\* value in the result is always the coerced one.
C15_UncoercibleValueError ==
    /\ (/\ pc = "done"
        /\ AskedSpec.ok
        /\ ~Spec_coerce(AskedSpec.v, args.value).ok) =>
          /\ ~outcome.ok
          /\ outcome.exc = "ValueError"
    /\ (pc = "done" /\ outcome.ok) =>
          Ok(outcome.v[args.idict.name]) = Spec_coerce(AskedSpec.v, args.value)

----------------------------------------------------------------------------
(* Properties of the schema decoder *)

\* the root node of the schema under test and the same node without its
\* maximum item count
Root == args.chooser.schema
WithoutMaximum == [k \in (DOMAIN Root) \ {"maxItems"} |-> Root[k]]

\* C16: an array is decoded to the list of exactly minItems child values,
\* each decoded from the scalars that follow those of the one before; its
\* cardinality is the child's cardinality times minItems, and maxItems
\* changes neither the elements nor the scalars consumed.
C16_ArrayMinimumItems ==
    Dispatch(Root) = "items" =>
        LET c == num_parameters(args.chooser, Root.items)
        IN  /\ pc = "rows" =>
                  /\ outcome = Returned(c * Root.minItems)
                  /\ sample_dimensions([args.chooser EXCEPT
                                           !.schema = WithoutMaximum])
                         = outcome.v
            /\ RowDecoded =>
                  /\ obj.ok
                  /\ obj.v.ty = "list"
                  /\ Len(obj.v.items) = Root.minItems
                  /\ obj.cursor = c * Root.minItems
                  /\ \A i \in 1..Root.minItems :
                         LET d == choose_at(args.chooser, Root.items, ret,
                                            (i - 1) * c, <<>>)
                         IN  /\ d.ok
                             /\ d.v = obj.v.items[i]
                             /\ d.reads = [j \in 1..c |-> (i - 1) * c + j - 1]
                  /\ Chooser_choose([args.chooser EXCEPT
                                        !.schema = WithoutMaximum], ret) = obj

\* an array of two numbers with a maximum of more items has been decoded
\* from two different scalars
C16_Witness ==
    /\ RowDecoded
    /\ Dispatch(Root) = "items"
    /\ "maxItems" \in DOMAIN Root
    /\ Root.maxItems > Root.minItems
    /\ Len(obj.v.items) = 2
    /\ obj.v.items[1] # obj.v.items[2]

\* the branches of the root conjunction and where each starts in the
\* vector: the summed cardinality of the branches listed before it
Branches == Root.allOf
BranchOffset(i) ==
    SumSeq([j \in 1..(i - 1) |-> num_parameters(args.chooser, Branches[j])])
BranchDecoded(i) ==
    choose_at(args.chooser, Branches[i], ret, BranchOffset(i), <<>>)

\* C17: the branches of a conjunction are decoded in listed order, each from
\* the scalars that follow those of the branch before; the result holds
\* every key of every branch with the value of the last branch that has it,
\* and the scalars consumed are the sum of the branches' cardinalities.
C17_ConjunctionLastBranchWins ==
    Dispatch(Root) = "allOf" =>
        /\ pc = "rows" => outcome = Returned(BranchOffset(Len(Branches) + 1))
        /\ RowDecoded =>
              /\ obj.ok
              /\ obj.cursor = BranchOffset(Len(Branches) + 1)
              /\ \A i \in 1..Len(Branches) :
                     /\ BranchDecoded(i).ok
                     /\ BranchDecoded(i).reads =
                            [j \in 1..(BranchOffset(i + 1) - BranchOffset(i))
                                |-> BranchOffset(i) + j - 1]
                     /\ DOMAIN BranchDecoded(i).v.d \subseteq DOMAIN obj.v.d
                     /\ \A k \in DOMAIN BranchDecoded(i).v.d :
                            \/ obj.v.d[k] = BranchDecoded(i).v.d[k]
                            \/ \E j \in (i + 1)..Len(Branches) :
                                   k \in DOMAIN BranchDecoded(j).v.d
              /\ \A k \in DOMAIN obj.v.d :
                     \E i \in 1..Len(Branches) : k \in DOMAIN BranchDecoded(i).v.d

\* two branches have produced different values for the key a, and the
\* result keeps the one of the second branch
C17_Witness ==
    /\ RowDecoded
    /\ Dispatch(Root) = "allOf"
    /\ obj.ok
    /\ "a" \in DOMAIN BranchDecoded(1).v.d
    /\ "a" \in DOMAIN BranchDecoded(2).v.d
    /\ BranchDecoded(1).v.d["a"] # BranchDecoded(2).v.d["a"]
    /\ obj.v.d["a"] = BranchDecoded(2).v.d["a"]
    /\ "b" \in DOMAIN obj.v.d

\* the handler of a node by the priority of the structural keywords
Handler(node) ==
    IF "properties" \in DOMAIN node THEN "properties"
    ELSE IF "items" \in DOMAIN node THEN "items"
    ELSE IF "enum" \in DOMAIN node THEN "enum"
    ELSE IF "ref" \in DOMAIN node THEN "ref"
    ELSE IF "allOf" \in DOMAIN node THEN "allOf"
    ELSE IF "type" \in DOMAIN node
            /\ node.type \in {"number", "integer", "string"}
    THEN "type"
    ELSE ""

\* the root node without the structural keywords and the type that its
\* handler does not look at
HandledOnly ==
    [k \in (DOMAIN Root)
           \ ({"properties", "items", "enum", "ref", "allOf", "type"}
              \ {Handler(Root)}) |-> Root[k]]

\* C18: a node is handled by the first structural keyword it carries in the
\* order properties, items, enum, ref, allOf, whatever else it carries; with
\* no such keyword by its primitive type; with neither, counting and
\* decoding both fail with UnrecognizedSchemaError.
C18_DispatchPriority ==
    /\ Dispatch(Root) =
           IF Handler(Root) = "type" THEN Root.type ELSE Handler(Root)
    /\ (pc = "rows" /\ Handler(Root) # "") =>
           outcome = Returned(sample_dimensions(
                         [args.chooser EXCEPT !.schema = HandledOnly]))
    /\ (RowDecoded /\ Handler(Root) # "") =>
           obj = Chooser_choose([args.chooser EXCEPT !.schema = HandledOnly],
                                ret)
    /\ (pc # "sample" /\ Handler(Root) = "") =>
           /\ pc = "failed"
           /\ outcome.exc = "UnrecognizedSchemaError"
           /\ \A row \in lhs_rows(1) :
                  Chooser_choose(args.chooser, row)
                      = Raise("UnrecognizedSchemaError")

\* a node with an enum, a reference and a type has been decoded as an enum
C18_Witness ==
    /\ RowDecoded
    /\ {"enum", "ref", "type"} \subseteq DOMAIN Root
    /\ obj.ok
    /\ obj.v \in {Root.enum[i] : i \in 1..Len(Root.enum)}

----------------------------------------------------------------------------
(* Properties that relate several operations *)

\* C21: the value choose produces for a scalar of [0, 1) passes is_valid of
\* the same spec.
C21_ChosenValueValid ==
    (pc = "chosen" /\ ret.res.ok) =>
        Spec_is_valid(obj.v, ret.res.v) = Ok(TRUE)

\* the raw spec under test has a type that is none of the kinds
UnknownKind ==
    AskedKind \notin {"interval", "choice", "str", "point2d", "list", "fixed"}

\* the raw number, interval or choice spec under test names a datatype that
\* is none of int, float, str and bool; a choice spec has its choices
UnknownDtype ==
    /\ AskedKind \in {"interval", "choice"}
    /\ "dtype" \in DOMAIN args.idict
    /\ args.idict.dtype \notin {"int", "float", "str", "bool"}
    /\ AskedKind = "choice" => "choices" \in DOMAIN args.idict

\* C22: parse_parameter_spec fails with ValueError and returns no spec
\* object for a raw spec of an unrecognized type and for a number, interval
\* or choice raw spec with an unknown dtype.
C22_UnknownTypeRejected ==
    (pc = "made" /\ (UnknownKind \/ UnknownDtype)) => obj = Raise("ValueError")

\* a number spec with an unknown dtype and sound bounds has been rejected
C22_Witness ==
    /\ pc = "made"
    /\ UnknownDtype
    /\ args.idict.type = "number"
    /\ DOMAIN args.idict = {"name", "type", "dtype"}
    /\ obj = Raise("ValueError")

----------------------------------------------------------------------------
(* Properties of Point2DSpec.is_valid *)

\* item, coerced by spec, is valid against spec
CoercedValid(spec, item) ==
    /\ Spec_coerce(spec, item).ok
    /\ Spec_is_valid(spec, Spec_coerce(spec, item).v) = Ok(TRUE)

\* the properties the point value under test supplies
SuppliedProperties ==
    IF "properties" \in DOMAIN args.value.d
    THEN args.value.d["properties"] ELSE EmptyDict

\* the point value under test has x and y, each valid against its interval,
\* and every property it supplies is declared and valid against its spec
PointAsDeclared ==
    /\ args.value.ty = "dict"
    /\ "x" \in DOMAIN args.value.d
    /\ "y" \in DOMAIN args.value.d
    /\ CoercedValid(obj.v.x, args.value.d["x"])
    /\ CoercedValid(obj.v.y, args.value.d["y"])
    /\ SuppliedProperties.ty = "dict"
    /\ \A k \in DOMAIN SuppliedProperties.d :
           \E i \in 1..Len(obj.v.properties.items) :
               /\ obj.v.properties.items[i].name = k
               /\ CoercedValid(obj.v.properties.items[i],
                               SuppliedProperties.d[k])

\* C23: a point value is valid exactly when it is a mapping with x and y
\* valid against their intervals and every supplied property valid against
\* its declared spec; x and y are required, the declared properties are
\* optional.
C23_PointPropertiesOptional ==
    (pc = "validated" /\ obj.v.cls = "Point2DSpec"
        /\ obj.v.properties # None) =>
        (ret = Ok(TRUE) <=> PointAsDeclared)

----------------------------------------------------------------------------
(* Properties of the effects of parse_parameters *)

\* C24: when parse_parameters has returned or failed, the mapping of the
\* caller holds exactly the entries and values it held before the call.
C24_ParametersUnchanged ==
    pc = "done" => parameters = args.parameters

\* some raw spec of the list is malformed: its constructor raises ValueError
SomeSpecMalformed ==
    \E i \in 1..Len(args.parameter_specs) :
        parse_parameter_spec(args.parameter_specs[i]).res = Raise("ValueError")

\* C25: when a raw spec of the list is malformed, parse_parameters reports
\* that spec, wherever it stands in the list and whatever is supplied for
\* the specs before it, and no supplied parameter has been looked up,
\* coerced or validated by then.
C25_MalformedSpecFirst ==
    (pc = "done" /\ outcome.site # "unknown" /\ SomeSpecMalformed) =>
        /\ outcome.site = "spec"
        /\ parameters = args.parameters

----------------------------------------------------------------------------
(* Properties of the default of a ChoiceSpec *)

\* C26: the default of every constructed Choice spec is one of its choices,
\* whether it was given or taken from the first choice.
C26_ChoiceDefaultIsChoice ==
    (pc = "made" /\ obj.ok /\ obj.v.cls = "ChoiceSpec") =>
        ChoiceSpec_is_valid(obj.v, obj.v.default) = Ok(TRUE)

----------------------------------------------------------------------------
(* Properties of the effects of parse_parameter_spec *)

\* C27: after parse_parameter_spec the raw spec and the mappings nested in
\* it hold exactly the keys and values they held before the call.
C27_RawSpecUnchanged ==
    pc = "made" => parameter_specs = <<args.idict>>

----------------------------------------------------------------------------
(* Properties of parse_parameters on a point *)

\* the point value supplied holds, in its properties, a name that the
\* point2d spec does not declare
UndeclaredSupplied ==
    /\ AskedSpec.ok
    /\ AskedSpec.v.properties # None
    /\ args.value.ty = "dict"
    /\ SuppliedProperties.ty = "dict"
    /\ \E k \in DOMAIN SuppliedProperties.d :
           \A i \in 1..Len(AskedSpec.v.properties.items) :
               AskedSpec.v.properties.items[i].name # k

\* C28: parse_parameters fails for every point value whose properties hold
\* a name the point2d spec does not declare.
C28_UndeclaredPropertyRejected ==
    (pc = "done" /\ UndeclaredSupplied) => ~outcome.ok

====
